---- MODULE Spec2Model ----
(***************************************************************************)
(* Model of the capture runtime of services_debugger.                      *)
(*                                                                         *)
(* The first part covers the SSH connection pool                           *)
(* (app/core/ssh_conn_mngr.py), the singleton metaclass that constructs it *)
(* (app/core/singleton.py) and the scope in which a capture worker uses    *)
(* the pool (Dumper.run of app/core/dumpers.py).                           *)
(*                                                                         *)
(* Every method is split at the points where the interpreter may switch    *)
(* threads between two accesses of shared state, so that a specification   *)
(* can either run the methods one at a time (Spec) or interleave them      *)
(* (SpecConc, SpecAcquire).                                                *)
(*                                                                         *)
(* The second part covers the task manager (app/core/task_mngr.py): the    *)
(* front that sends commands over a queue and the supervisor process that  *)
(* serves them and owns the workers. SpecRpc is one foreground thread with *)
(* calls that time out, SpecCallers is several foreground threads at once, *)
(* and SpecSupervisor is the supervisor with its workers running.          *)
(*                                                                         *)
(* The third part covers the loop of a capture worker (Dumper.run and      *)
(* Dumper.stop) and the log thread of the front (LogProxyThread).          *)
(* SpecWorker is one worker against a remote command that writes to stdout *)
(* and stderr, SpecLog is the supervisor with the log queue followed, and  *)
(* SpecStop is the front stopped while a worker receives data. Of a stream *)
(* and of a file the first MaxData bytes are followed, and of the log the  *)
(* first MaxRecords records.                                               *)
(*                                                                         *)
(* The fourth part covers what remains: workers on two hosts whose         *)
(* releases of the pool overlap (SpecExit), a worker on a descriptor that  *)
(* reports what the channel's buffers hold (SpecStream), workers and the   *)
(* files their commands name (SpecFiles), commands without a handler       *)
(* (SpecOther), a front that is started and stopped several times          *)
(* (SpecFront), and the host registry of app/db/hosts.py behind the routes *)
(* of app/api/hosts.py (SpecHosts).                                        *)
(***************************************************************************)
EXTENDS Naturals, Integers, Sequences, FiniteSets, TLC

\* ------------------------------------------------------------------ bounds

\* Number of threads of the process that use the pool.
NumThreads == 2

\* Size of the space the random lease ids are drawn from (36^8 in the code).
NumIds == 2

\* Number of transports that may be established in one behaviour.
MaxTransports == 2

\* Number of foreground threads that call the front.
NumCallers == 2

\* Size of the space the random task ids are drawn from (36^8 in the code).
NumTaskIds == 2

\* Number of commands that may be waiting for the supervisor, with the results
\* that no caller has taken yet.
MaxPending == 2

\* Number of bytes of a worker's stdout stream, and of its output file, that are
\* followed from the start of the stream: what comes after is received and
\* written but not recorded.
MaxData == 2

\* Number of bytes a channel buffer holds before the remote side has to wait
\* (the window of the channel).
MaxBuffer == 2

\* Number of log records of the subordinate process that are followed.
MaxRecords == 2

\* Size of the space of host ids of the registry.
NumHostIds == 2

\* Number of times the front spawns a subordinate process in one behaviour.
MaxSpawns == 2

Threads == 1..NumThreads

Callers == 1..NumCallers

TaskIds == 1..NumTaskIds

\* string.ascii_uppercase + string.digits
IdAlphabet ==
    <<"A", "B", "C", "D", "E", "F", "G", "H", "I", "J", "K", "L", "M", "N", "O", "P", "Q", "R",
      "S", "T", "U", "V", "W", "X", "Y", "Z", "0", "1", "2", "3", "4", "5", "6", "7", "8", "9">>

\* k=8: the number of characters of an id.
IdLength == 8

\* ''.join(choices(string.ascii_uppercase + string.digits, k=8)): the string
\* that lease id or task id n stands for. Of the strings the generator can
\* return, the model follows those that differ in their last character.
IdText(n) == [i \in 1..IdLength |-> IdAlphabet[IF i = IdLength THEN n ELSE 1]]

\* The absent task id and the absent call (None).
NoTask == 0

NoTag == 0

LeaseIds == 1..NumIds

\* The absent lease id, transport and thread (None).
NoLease == 0

NoConn == 0

NoThread == 0

\* --------------------------------------------------------------- the inputs

\* The hosts of the test suite: one address, two SSH ports.
Addresses == {"127.0.0.1"}

PortNumbers == {10022, 10023}

\* port: str | int. A port argument is the number or its decimal string.
PortArgs == [form : {"int", "str"}, digits : PortNumbers]

\* int(port): the number a port argument denotes.
IntOfPort(port) == port.digits

\* (address, int(port)): the key of the connection table.
Keys == Addresses \X PortNumbers

NoKey == <<"", 0>>

KeyOf(address, port) == <<address, IntOfPort(port)>>

\* username and password as one value.
Credentials == {"test_user:test_password", "other_user:other_password"}

\* f'{self.name}.ssh_mngr': the name a worker gives to SSHConnectionManager(name).
WorkerManagerName == "dumper.ssh_mngr"

\* Names given to SSHConnectionManager(name).
Names == {"ssh_conn_manager", WorkerManagerName}

NoName == ""

\* Host.host_id of a Host that has none: Field(default=None).
NoHostId == 0

\* No answer yet.
NoResponse == [method |-> "", host_id |-> NoHostId, status_code |-> 0, detail |-> ""]

\* An empty hosts table.
NoRegistry == [hosts |-> <<>>, response |-> NoResponse]

\* ----------------------------------------------------------------- the state

VARIABLES
    instance,      \* SingletonMeta._instances[SSHConnectionManager]: 0 or the id of the instance
    inits,         \* how many times SSHConnectionManager.__init__ has run
    name,          \* SSHConnectionManager.name of the instance
    first_name,    \* the name passed to the first construction that ran __init__
    cls_lock,      \* SingletonMeta._lock: its holder or NoThread
    ssh_lock,      \* SSHConnectionManager._ssh_lock: its holder or NoThread
    connections,   \* SSHConnectionManager._connections: key -> transport
    leases,        \* SSHConnectionManager._leases: lease id -> key
    transports,    \* every paramiko.SSHClient connected so far: [key, cred, open]
    pc,            \* where each thread is in the method it runs
    frame,         \* the arguments, locals and outcome of that method
    held,          \* per thread, the (lease id, transport) pairs it was given and has not released
    pre,           \* the tables as they were when the running method was called
    need_stop,     \* Dumper._need_stop of the worker run by each thread
    tasks,         \* ProcessTaskManager._tasks, in insertion order: [task_id, worker, task_type]
    sup,           \* where the supervisor is in ProcessTaskManager.run, and its locals
    stop_event,    \* ProcessTaskManager.need_stop, the event shared with the front
    cmd_queue,     \* the command queue, front to supervisor
    res_queue,     \* the result queue, supervisor to front
    process,       \* TaskManager._process: "none" or "started"
    call,          \* per foreground thread, where it is in the front method it runs
    channel,       \* per worker, the channel of its remote command: the buffers paramiko fills
    output_file,   \* per worker, the content of the file it writes
    log_queue,     \* TaskManager._log_queue, subordinate process to front
    log_thread,    \* TaskManager._log_thread: the LogProxyThread and its stop event
    handled,       \* the records handed to the caller's logger, in the order of the calls
    registry       \* the hosts table of app/db/hosts.py, and the answer to the last request

vars == <<instance, inits, name, first_name, cls_lock, ssh_lock, connections,
          leases, transports, pc, frame, held, pre,
          need_stop, tasks, sup, stop_event, cmd_queue, res_queue, process, call,
          channel, output_file, log_queue, log_thread, handled, registry>>

\* What a worker reads and writes in its loop.
capture == <<channel, output_file>>

\* The way of the log records from the subordinate process to the caller's logger.
logging == <<log_queue, log_thread, handled>>

\* The state of the task manager: the supervisor, its workers' flags and the front.
manager == <<need_stop, tasks, sup, stop_event, cmd_queue, res_queue, process, call,
             capture, logging>>

pool == <<connections, leases, transports, ssh_lock>>

singleton == <<instance, inits, name, first_name, cls_lock>>

EmptyMap == <<>>

\* An output file whose name is not followed.
NoPath == ""

EmptyFrame ==
    [op |-> "", key |-> NoKey, cred |-> "", lease_id |-> NoLease, conn |-> NoConn,
     released |-> NoKey, destroyed |-> NoConn, name |-> NoName, ret |-> 0, made |-> FALSE,
     fresh |-> FALSE, path |-> "", result |-> "", exitcode |-> 0, logged |-> <<>>,
     iter_size |-> 0, visited |-> {}, opened |-> FALSE, output_file |-> NoPath]

\* pre.last notes that destroy_all_connections was the method that returned last.
NoPre == [leases |-> EmptyMap, connections |-> EmptyMap, transports |-> <<>>, last |-> ""]

Snapshot ==
    [leases |-> leases, connections |-> connections, transports |-> transports,
     last |-> pre.last]

\* dict.pop(k): the map without k.
Without(map, k) == [x \in DOMAIN map \ {k} |-> map[x]]

\* dict[k] = v.
With(map, k, v) == [x \in DOMAIN map \cup {k} |-> IF x = k THEN v ELSE map[x]]

\* conn.close() on transport c.
Closed(ts, c) == [ts EXCEPT ![c].open = FALSE]

AllIdle == \A t \in Threads : pc[t] = "idle"

\* ------------------------------------------------ the task manager's records

\* TaskType.
TaskType == [LOG |-> "log_dump", PCAP |-> "pcap_dump"]

NoHost == [ssh_address |-> "", ssh_port |-> 0, cred |-> ""]

\* TaskManagerCommand: the name of the handler and its arguments. tag tells
\* which front call put the command; the code does not send it.
NoCmd == [name |-> "", task_id |-> NoTask, host |-> NoHost, tag |-> NoTag]

\* Task: the snapshot of a worker.
NoSnapshot == [task_id |-> NoTask, name |-> <<>>, task_type |-> "", is_alive |-> FALSE]

\* TaskManagerResult: data is a Task, a list of Task or an exception. tag is
\* the tag of the command the supervisor produced the result for.
NoResult ==
    [kind |-> "", task |-> NoSnapshot, list |-> <<>>, error |-> "", message |-> <<>>,
     tag |-> NoTag]

\* An entry of the task table: the Dumper (the thread that runs it) under its id.
NoEntry == [task_id |-> NoTask, dumper |-> NoThread, name |-> <<>>, task_type |-> ""]

\* The supervisor before its process is spawned. before is the task table as it
\* was when the command in hand was taken from the queue, next the index of the
\* worker the shutdown loop has come to.
SupDown ==
    [pc |-> "down", cmd |-> NoCmd, task_id |-> NoTask, dumper |-> NoThread,
     popped |-> NoEntry, returned_value |-> NoResult, before |-> <<>>, next |-> 0]

\* A foreground thread that runs no front method.
NoCall ==
    [pc |-> "idle", name |-> "", task_id |-> NoTask, tag |-> NoTag, outcome |-> "",
     error |-> "", result |-> NoResult]

\* A channel on which nothing has arrived. received is the stdout stream so
\* far, as far as it is followed.
NoChannel == [in_buffer |-> <<>>, in_stderr_buffer |-> <<>>, received |-> <<>>]

\* No LogProxyThread: self._log_thread is None.
NoLogThread == [pc |-> "none", need_stop |-> FALSE]

\* A LogProxyThread in its loop, blocked in self._log_queue.get(timeout=1).
LogThreadRunning == [pc |-> "get", need_stop |-> FALSE]

\* The state after TaskManager(name): nothing is spawned.
ManagerInit ==
    /\ need_stop = [t \in Threads |-> FALSE]
    /\ tasks = <<>>
    /\ sup = SupDown
    /\ stop_event = FALSE
    /\ cmd_queue = <<>>
    /\ res_queue = <<>>
    /\ process = "none"
    /\ call = [c \in Callers |-> NoCall]
    /\ channel = [t \in Threads |-> NoChannel]
    /\ output_file = [t \in Threads |-> <<>>]
    /\ log_queue = <<>>
    /\ log_thread = NoLogThread
    /\ handled = <<>>
    /\ registry = NoRegistry

Init ==
    /\ instance = 0
    /\ inits = 0
    /\ name = NoName
    /\ first_name = NoName
    /\ cls_lock = NoThread
    /\ ssh_lock = NoThread
    /\ connections = EmptyMap
    /\ leases = EmptyMap
    /\ transports = <<>>
    /\ pc = [t \in Threads |-> "idle"]
    /\ frame = [t \in Threads |-> EmptyFrame]
    /\ held = [t \in Threads |-> {}]
    /\ pre = NoPre
    /\ ManagerInit

\* ------------------------------------------------- SingletonMeta.__call__

\* SSHConnectionManager(name) is called by thread t.
CallConstruct(t, n) ==
    /\ pc[t] = "idle"
    /\ pc' = [pc EXCEPT ![t] = "c_lock"]
    /\ frame' = [frame EXCEPT ![t] = [EmptyFrame EXCEPT !.op = "construct", !.name = n]]
    /\ UNCHANGED <<singleton, pool, held>>

\* Bug: the check is missing, every call constructs.
MustCreateAlways == TRUE

\* if cls not in cls._instances
MustCreate == instance = 0

\* cls._instances[cls] = super().__call__(name): a new object, and __init__ gives it
\* its name, a new lock and two empty tables.
CreateInstance(t) ==
    /\ instance' = inits + 1
    /\ inits' = inits + 1
    /\ name' = frame[t].name
    /\ first_name' = IF inits = 0 THEN frame[t].name ELSE first_name
    /\ ssh_lock' = NoThread
    /\ connections' = EmptyMap
    /\ leases' = EmptyMap
    /\ UNCHANGED transports

\* with cls._lock: blocks until the lock is free, then runs the body of the block.
CtorLock(t) ==
    /\ pc[t] = "c_lock"
    /\ cls_lock = NoThread
    /\ cls_lock' = t
    /\ IF MustCreate
         THEN CreateInstance(t)
         ELSE UNCHANGED <<instance, inits, name, first_name, pool>>
    /\ frame' = [frame EXCEPT ![t].made = MustCreate]
    /\ pc' = [pc EXCEPT ![t] = "c_ret"]
    /\ UNCHANGED <<held, pre>>
    /\ UNCHANGED <<manager, registry>>

\* The with block ends, which releases cls._lock; return cls._instances[cls].
\* Dumper.run goes on to enter the connection scope.
CtorReturn(t) ==
    /\ pc[t] = "c_ret"
    /\ cls_lock' = NoThread
    /\ frame' = [frame EXCEPT ![t].ret = instance,
                              ![t].result = IF frame[t].op = "construct" THEN "ok" ELSE ""]
    /\ pc' = [pc EXCEPT ![t] = IF frame[t].op = "construct" THEN "done" ELSE "g_lock"]
    /\ UNCHANGED <<instance, inits, name, first_name, pool, held, pre>>
    /\ UNCHANGED <<manager, registry>>

\* ------------------------------------------- SSHConnectionManager.get_connection

AcquirePcs == {"c_lock", "c_ret", "g_lock", "g_connect", "g_lease"}

\* The threads that are on their way to a lease.
Acquiring == {t \in Threads : frame[t].op \in {"get", "run"} /\ pc[t] \in AcquirePcs}

\* The id space and the transport counter are not exhausted by the calls in progress.
RoomToAcquire ==
    /\ Cardinality(DOMAIN leases) + Cardinality(Acquiring) < NumIds
    /\ Len(transports) + Cardinality(Acquiring) < MaxTransports

\* Bug: a drawn id is never checked against the live leases.
CollidesNever(id) == FALSE

\* if lease_id in self._leases
Collides(id) == id \in DOMAIN leases

\* if (address, int(port)) in self._connections
HasConnection(key) == key \in DOMAIN connections

\* get_connection(address, port, username, password) is called by thread t.
\* frame.fresh notes that the key had no transport at the time of the call.
CallGet(t, address, port, cred) ==
    /\ pc[t] = "idle"
    /\ instance # 0
    /\ RoomToAcquire
    /\ pc' = [pc EXCEPT ![t] = "g_lock"]
    /\ frame' = [frame EXCEPT ![t] =
                    [EmptyFrame EXCEPT !.op = "get", !.key = KeyOf(address, port), !.cred = cred,
                                       !.fresh = ~HasConnection(KeyOf(address, port))]]
    /\ UNCHANGED <<singleton, pool, held>>

\* Bug: get_connection does not take the lock.
LockFreeAlways == TRUE

\* with self._ssh_lock: the lock can be taken when no thread holds it.
LockFree == ssh_lock = NoThread

\* with self._ssh_lock: blocks until the lock is free. Then get_random_lease_id
\* draws an id, and draws again on a collision; then the connection table is
\* looked up: conn = self._connections[key] when the key is there.
\* (No other thread's step can tell these three apart: they write locals only.)
GetLock(t) ==
    /\ pc[t] = "g_lock"
    /\ LockFree
    /\ \E id \in LeaseIds :
         IF Collides(id)
         THEN UNCHANGED <<pc, frame, ssh_lock>>
         ELSE /\ ssh_lock' = t
              /\ frame' = [frame EXCEPT ![t].lease_id = id,
                                        ![t].conn = IF HasConnection(frame[t].key)
                                                    THEN connections[frame[t].key]
                                                    ELSE NoConn]
              /\ pc' = [pc EXCEPT ![t] = IF HasConnection(frame[t].key)
                                         THEN "g_lease" ELSE "g_connect"]
    /\ UNCHANGED <<singleton, connections, leases, transports, held, pre>>
    /\ UNCHANGED <<manager, registry>>

\* Bug: the lease is stored before the transport is connected.
RaiseFromGetLeavesLease(t, error) ==
    /\ ssh_lock' = NoThread
    /\ leases' = With(leases, frame[t].lease_id, frame[t].key)
    /\ frame' = [frame EXCEPT ![t].result = error,
                              ![t].path = IF frame[t].op = "run" THEN "not_entered" ELSE ""]
    /\ pc' = [pc EXCEPT ![t] = "done"]
    /\ UNCHANGED <<connections, transports>>

\* Bug: the lock is taken with acquire() and not released when connect raises.
RaiseFromGetKeepsLock(t, error) ==
    /\ frame' = [frame EXCEPT ![t].result = error,
                              ![t].path = IF frame[t].op = "run" THEN "not_entered" ELSE ""]
    /\ pc' = [pc EXCEPT ![t] = "done"]
    /\ UNCHANGED <<connections, leases, transports, ssh_lock>>

\* An exception leaves the with block: the lock is released and the caller gets
\* the error. Dumper.run never entered the scope then.
RaiseFromGet(t, error) ==
    /\ ssh_lock' = NoThread
    /\ frame' = [frame EXCEPT ![t].result = error,
                              ![t].path = IF frame[t].op = "run" THEN "not_entered" ELSE ""]
    /\ pc' = [pc EXCEPT ![t] = "done"]
    /\ UNCHANGED <<connections, leases, transports>>

\* conn = self._create_ssh_connection(...); self._connections[key] = conn
\* ssh_client.connect either succeeds or raises.
GetConnect(t) ==
    /\ pc[t] = "g_connect"
    /\ \/ /\ transports' = Append(transports,
                 [key |-> frame[t].key, cred |-> frame[t].cred, open |-> TRUE])
          /\ connections' = With(connections, frame[t].key, Len(transports) + 1)
          /\ frame' = [frame EXCEPT ![t].conn = Len(transports) + 1, ![t].made = TRUE]
          /\ pc' = [pc EXCEPT ![t] = "g_lease"]
          /\ UNCHANGED <<leases, ssh_lock>>
       \/ RaiseFromGet(t, "ConnectFailed")
    /\ UNCHANGED <<singleton, held, pre>>
    /\ UNCHANGED <<manager, registry>>

\* self._leases[lease_id] = (address, int(port)); the with block ends;
\* return lease_id, conn. Inside the connection scope the generator yields conn.
GetLease(t) ==
    /\ pc[t] = "g_lease"
    /\ leases' = With(leases, frame[t].lease_id, frame[t].key)
    /\ ssh_lock' = NoThread
    /\ held' = [held EXCEPT ![t] = @ \cup {<<frame[t].lease_id, frame[t].conn>>}]
    /\ frame' = [frame EXCEPT ![t].result = IF frame[t].op = "get" THEN "ok" ELSE ""]
    /\ pc' = [pc EXCEPT ![t] = IF frame[t].op = "get" THEN "done" ELSE "w_open"]
    /\ UNCHANGED <<singleton, connections, transports, pre>>
    /\ UNCHANGED <<manager, registry>>

\* ---------------------------------------- SSHConnectionManager.release_connection

\* release_connection(lease_id) is called by thread t. Whoever held the lease has
\* given it up by now.
CallRelease(t, id) ==
    /\ pc[t] = "idle"
    /\ instance # 0
    /\ pc' = [pc EXCEPT ![t] = "r_pop"]
    /\ frame' = [frame EXCEPT ![t] = [EmptyFrame EXCEPT !.op = "release", !.lease_id = id]]
    /\ held' = [u \in Threads |-> {h \in held[u] : h[1] # id}]
    /\ UNCHANGED <<singleton, pool>>

\* An exception leaves release_connection; no lock is held there.
RaiseFromRelease(t, error) ==
    /\ frame' = [frame EXCEPT ![t].result = error,
                              ![t].path = IF frame[t].op = "run" THEN "normal" ELSE ""]
    /\ pc' = [pc EXCEPT ![t] = "done"]

\* release_connection returns.
ReturnFromRelease(t) ==
    /\ frame' = [frame EXCEPT ![t].result = "ok",
                              ![t].path = IF frame[t].op = "run" THEN "normal" ELSE ""]
    /\ pc' = [pc EXCEPT ![t] = "done"]

\* Bug: an unknown lease id is passed over in silence.
RelPopSilent(t) ==
    /\ pc[t] = "r_pop"
    /\ IF frame[t].lease_id \notin DOMAIN leases
         THEN /\ ReturnFromRelease(t)
              /\ UNCHANGED leases
         ELSE /\ leases' = Without(leases, frame[t].lease_id)
              /\ frame' = [frame EXCEPT ![t].released = leases[frame[t].lease_id]]
              /\ pc' = [pc EXCEPT ![t] = "r_scan"]
    /\ UNCHANGED <<singleton, connections, transports, ssh_lock, held, pre>>
    /\ UNCHANGED <<manager, registry>>

\* if lease_id not in self._leases: raise LookupError
\* released_connection = self._leases.pop(lease_id)
RelPop(t) ==
    /\ pc[t] = "r_pop"
    /\ IF frame[t].lease_id \notin DOMAIN leases
         THEN /\ RaiseFromRelease(t, "LookupError")
              /\ UNCHANGED leases
         ELSE /\ leases' = Without(leases, frame[t].lease_id)
              /\ frame' = [frame EXCEPT ![t].released = leases[frame[t].lease_id]]
              /\ pc' = [pc EXCEPT ![t] = "r_scan"]
    /\ UNCHANGED <<singleton, connections, transports, ssh_lock, held, pre>>
    /\ UNCHANGED <<manager, registry>>

\* Bug: any remaining lease keeps the transport, whatever its key.
StillLeasedAnyKey(key) == DOMAIN leases # {}

\* for leased_connection in self._leases.values(): if ... == released_connection: break
StillLeased(key) == \E id \in DOMAIN leases : leases[id] = key

\* The for/else as one step, which it is where no other thread changes
\* self._leases during the scan: the else branch runs _destroy_connection when
\* no lease is left.
RelScan(t) ==
    /\ pc[t] = "r_scan"
    /\ IF StillLeased(frame[t].released)
         THEN ReturnFromRelease(t)
         ELSE /\ pc' = [pc EXCEPT ![t] = "r_destroy"]
              /\ UNCHANGED frame
    /\ UNCHANGED <<singleton, pool, held, pre>>
    /\ UNCHANGED <<manager, registry>>

\* The for statement where other threads may change self._leases between two
\* entries: the iterator is made over the values as they are, and the first
\* entry, if there is one, is compared. The order of the entries is not
\* followed: the scan takes them in any order.
RelScanFirst(t) ==
    /\ pc[t] = "r_scan"
    /\ IF DOMAIN leases = {}
         THEN /\ pc' = [pc EXCEPT ![t] = "r_destroy"]
              /\ UNCHANGED frame
         ELSE \E id \in DOMAIN leases :
                IF leases[id] = frame[t].released
                THEN ReturnFromRelease(t)
                ELSE /\ pc' = [pc EXCEPT ![t] = "r_next"]
                     /\ frame' = [frame EXCEPT ![t].iter_size = Cardinality(DOMAIN leases),
                                               ![t].visited = {id}]
    /\ UNCHANGED <<singleton, pool, held, pre>>
    /\ UNCHANGED <<manager, registry>>

\* The next round of the for statement: the iterator raises RuntimeError
\* ('dictionary changed size during iteration') when the dict has another
\* size than when the iterator was made; otherwise the next entry is compared,
\* or the entries are exhausted and the else branch runs.
RelScanNext(t) ==
    /\ pc[t] = "r_next"
    /\ LET rest == DOMAIN leases \ frame[t].visited
           left(error, to) == [frame EXCEPT ![t].result = error,
                                            ![t].path = IF frame[t].op = "run" /\ to = "done"
                                                        THEN "normal" ELSE frame[t].path,
                                            ![t].iter_size = 0, ![t].visited = {}]
       IN IF Cardinality(DOMAIN leases) # frame[t].iter_size
          THEN /\ frame' = left("RuntimeError", "done")
               /\ pc' = [pc EXCEPT ![t] = "done"]
          ELSE IF rest = {}
          THEN /\ frame' = left(frame[t].result, "r_destroy")
               /\ pc' = [pc EXCEPT ![t] = "r_destroy"]
          ELSE \E id \in rest :
                 IF leases[id] = frame[t].released
                 THEN /\ frame' = left("ok", "done")
                      /\ pc' = [pc EXCEPT ![t] = "done"]
                 ELSE /\ frame' = [frame EXCEPT ![t].visited = @ \cup {id}]
                      /\ UNCHANGED pc
    /\ UNCHANGED <<singleton, pool, held, pre>>
    /\ UNCHANGED <<manager, registry>>

\* _destroy_connection: the lookup, conn = self._connections.pop(...), conn.close()
RelDestroy(t) ==
    /\ pc[t] = "r_destroy"
    /\ IF frame[t].released \notin DOMAIN connections
         THEN /\ RaiseFromRelease(t, "LookupError")
              /\ UNCHANGED <<connections, transports>>
         ELSE /\ connections' = Without(connections, frame[t].released)
              /\ transports' = Closed(transports, connections[frame[t].released])
              /\ frame' = [frame EXCEPT ![t].destroyed = connections[frame[t].released],
                                        ![t].result = "ok",
                                        ![t].path = IF frame[t].op = "run" THEN "normal" ELSE ""]
              /\ pc' = [pc EXCEPT ![t] = "done"]
    /\ UNCHANGED <<singleton, leases, ssh_lock, held, pre>>
    /\ UNCHANGED <<manager, registry>>

\* ----------------------------------- SSHConnectionManager.destroy_all_connections

CallDestroy(t) ==
    /\ pc[t] = "idle"
    /\ instance # 0
    /\ pc' = [pc EXCEPT ![t] = "d_all"]
    /\ frame' = [frame EXCEPT ![t] = [EmptyFrame EXCEPT !.op = "destroy"]]
    /\ UNCHANGED <<singleton, pool, held>>

\* The transports of the connection table.
Pooled == {connections[k] : k \in DOMAIN connections}

\* Bug: the leases are not cleared.
DestroyAllKeepsLeases(t) ==
    /\ pc[t] = "d_all"
    /\ transports' = [c \in DOMAIN transports |->
                        IF c \in Pooled THEN [transports[c] EXCEPT !.open = FALSE]
                                        ELSE transports[c]]
    /\ connections' = EmptyMap
    /\ held' = [u \in Threads |-> {}]
    /\ frame' = [frame EXCEPT ![t].result = "ok"]
    /\ pc' = [pc EXCEPT ![t] = "done"]
    /\ UNCHANGED <<singleton, leases, ssh_lock, pre>>
    /\ UNCHANGED <<manager, registry>>

\* for conn in self._connections.values(): conn.close()
\* self._connections.clear(); self._leases.clear()
DestroyAll(t) ==
    /\ pc[t] = "d_all"
    /\ transports' = [c \in DOMAIN transports |->
                        IF c \in Pooled THEN [transports[c] EXCEPT !.open = FALSE]
                                        ELSE transports[c]]
    /\ connections' = EmptyMap
    /\ leases' = EmptyMap
    /\ held' = [u \in Threads |-> {}]
    /\ frame' = [frame EXCEPT ![t].result = "ok"]
    /\ pc' = [pc EXCEPT ![t] = "done"]
    /\ UNCHANGED <<singleton, ssh_lock, pre>>
    /\ UNCHANGED <<manager, registry>>

\* ------------------------------------------------------------------ Dumper.run

\* Host: the connection parameters of a worker.
Hosts == [ssh_address : Addresses, ssh_port : PortNumbers, cred : Credentials]

\* Thread t is a new Dumper (its __init__ clears the stop flag and keeps the
\* name of the output file) that runs Dumper.run for host: it constructs the
\* manager, then enters ssh_manager.connection(...), whose first statement is
\* get_connection.
CallRunInto(t, host, path) ==
    /\ pc[t] = "idle"
    /\ RoomToAcquire
    /\ need_stop' = [need_stop EXCEPT ![t] = FALSE]
    /\ pc' = [pc EXCEPT ![t] = "c_lock"]
    /\ frame' = [frame EXCEPT ![t] =
                    [EmptyFrame EXCEPT !.op = "run", !.name = WorkerManagerName,
                                       !.key = KeyOf(host.ssh_address,
                                                     [form |-> "int", digits |-> host.ssh_port]),
                                       !.cred = host.cred,
                                       !.output_file = path]]
    /\ UNCHANGED <<singleton, pool, held>>

\* The same where the name of the output file is not followed.
CallRun(t, host) == CallRunInto(t, host, NoPath)

\* Bug: an exception that leaves one run ends every running thread.
ExitScopeRaisedForAll(t, error) ==
    /\ frame' = [frame EXCEPT ![t].result = error, ![t].path = "raised", ![t].opened = FALSE]
    /\ pc' = [u \in Threads |-> IF pc[u] = "idle" THEN "idle" ELSE "done"]
    /\ UNCHANGED held

\* An exception leaves the with statement while the connection generator is
\* suspended at its yield: it is thrown into the generator, where no try/finally
\* surrounds the yield, so the statement after the yield does not run.
ExitScopeRaised(t, error) ==
    /\ frame' = [frame EXCEPT ![t].result = error, ![t].path = "raised", ![t].opened = FALSE]
    /\ pc' = [pc EXCEPT ![t] = "done"]
    /\ UNCHANGED held

\* The with statement ends normally: the output file is closed, then the
\* generator resumes after its yield and calls self.release_connection(lease_id).
ExitScopeNormal(t) ==
    /\ pc' = [pc EXCEPT ![t] = "r_pop"]
    /\ held' = [u \in Threads |-> {h \in held[u] : h[1] # frame[t].lease_id}]
    /\ frame' = [frame EXCEPT ![t].opened = FALSE]

\* Bug: a file that cannot be opened does not keep the worker from its command.
RunOpenUnopened(t) ==
    /\ pc[t] = "w_open"
    /\ \/ /\ pc' = [pc EXCEPT ![t] = "w_body"]
          /\ output_file' = [output_file EXCEPT ![t] = <<>>]
          /\ channel' = [channel EXCEPT ![t] = NoChannel]
          /\ frame' = [frame EXCEPT ![t].opened = TRUE]
          /\ UNCHANGED held
       \/ /\ pc' = [pc EXCEPT ![t] = "w_body"]
          /\ UNCHANGED <<frame, held, capture>>
    /\ UNCHANGED <<singleton, pool, pre>>
    /\ UNCHANGED <<need_stop, tasks, sup, stop_event, cmd_queue, res_queue, process, call, logging, registry>>

\* open(self._output_file, 'wb'): the second item of the with statement. The
\* file is created, or emptied when it exists.
RunOpen(t) ==
    /\ pc[t] = "w_open"
    /\ \/ /\ pc' = [pc EXCEPT ![t] = "w_body"]
          /\ output_file' = [output_file EXCEPT ![t] = <<>>]
          /\ channel' = [channel EXCEPT ![t] = NoChannel]
          /\ frame' = [frame EXCEPT ![t].opened = TRUE]
          /\ UNCHANGED held
       \/ /\ ExitScopeRaised(t, "OSError")
          /\ UNCHANGED capture
    /\ UNCHANGED <<singleton, pool, pre>>
    /\ UNCHANGED <<need_stop, tasks, sup, stop_event, cmd_queue, res_queue, process, call, logging, registry>>

\* The exit codes a remote command may end with.
ExitCodes == {1, 127}

\* One exit code, where the code itself does not matter.
OneExitCode == {1}

\* The test of the while statement, while self._need_stop is False: the worker
\* goes to the poll, or leaves the loop, unregisters and closes the epoll
\* object and the channel, and the with statement ends.
LoopCheck(t, flag) ==
    IF flag THEN ExitScopeNormal(t)
            ELSE pc' = [pc EXCEPT ![t] = "w_poll"] /\ UNCHANGED <<frame, held>>

\* Bug: the exit code is noted and the worker goes on to its loop.
EarlyExitGoesOn(t, code) ==
    /\ frame' = [frame EXCEPT ![t].result = "DumperError", ![t].exitcode = code]
    /\ pc' = [pc EXCEPT ![t] = "w_poll"]
    /\ UNCHANGED held

\* if channel.exit_status_ready(): exitcode = channel.recv_exit_status();
\* raise DumperError(f'... exit code: {exitcode}'), which leaves the with
\* statement and ends the thread.
EarlyExit(t, code) ==
    /\ frame' = [frame EXCEPT ![t].result = "DumperError", ![t].path = "raised",
                              ![t].exitcode = code, ![t].opened = FALSE]
    /\ pc' = [pc EXCEPT ![t] = "done"]
    /\ UNCHANGED held

\* The body of the with statement up to the loop: exec_command, which may
\* fail, and does fail when the transport has been closed, then the early
\* exit check, which raises DumperError with the exit code when the command
\* has already ended, then the registration with epoll and the first test of
\* the stop flag.
RunBody(t, codes) ==
    /\ pc[t] = "w_body"
    /\ \/ ExitScopeRaised(t, "SSHException")
       \/ /\ transports[frame[t].conn].open
          /\ \/ \E code \in codes : EarlyExit(t, code)
             \/ LoopCheck(t, need_stop[t])
    /\ UNCHANGED <<singleton, pool, pre>>
    /\ UNCHANGED <<manager, registry>>

\* What epoll.poll(1) reports for the channel's descriptor: a set of event
\* bits, none when the second has passed without an event.
EventBits == {"EPOLLIN", "EPOLLHUP", "EPOLLERR"}

Events == SUBSET EventBits

\* The events of a channel on which no data arrives.
QuietEvents == {{}, {"EPOLLHUP"}}

\* Bug: hangup is looked at before read-ready.
RunPollHangupFirst(t, event) ==
    /\ pc[t] = "w_poll"
    /\ IF "EPOLLHUP" \in event
         THEN /\ need_stop' = [need_stop EXCEPT ![t] = TRUE]
              /\ LoopCheck(t, TRUE)
         ELSE IF "EPOLLIN" \in event
                THEN /\ pc' = [pc EXCEPT ![t] = "w_stdout"]
                     /\ UNCHANGED <<frame, held, need_stop>>
                ELSE /\ LoopCheck(t, need_stop[t])
                     /\ UNCHANGED need_stop
    /\ UNCHANGED <<singleton, pool, pre, capture>>
    /\ UNCHANGED <<tasks, sup, stop_event, cmd_queue, res_queue, process, call, logging, registry>>

\* for fileno, event in epoll.poll(1): the branch the event takes. EPOLLIN
\* goes to the reading loops; EPOLLHUP, looked at only when EPOLLIN is not
\* set, sets the stop flag; any other event is logged. After the for statement
\* comes the test of the while statement.
RunPoll(t, event) ==
    /\ pc[t] = "w_poll"
    /\ IF "EPOLLIN" \in event
         THEN /\ pc' = [pc EXCEPT ![t] = "w_stdout"]
              /\ UNCHANGED <<frame, held, need_stop>>
         ELSE IF "EPOLLHUP" \in event
                THEN /\ need_stop' = [need_stop EXCEPT ![t] = TRUE]
                     /\ LoopCheck(t, TRUE)
                ELSE /\ LoopCheck(t, need_stop[t])
                     /\ UNCHANGED need_stop
    /\ UNCHANGED <<singleton, pool, pre, capture>>
    /\ UNCHANGED <<tasks, sup, stop_event, cmd_queue, res_queue, process, call, logging, registry>>

\* The first bytes of a sequence, as far as they are followed.
Observed(bytes) == SubSeq(bytes, 1, IF Len(bytes) < MaxData THEN Len(bytes) ELSE MaxData)

\* Bug: the file is written from the front.
WrittenInFront(file, data) == Observed(data \o file)

\* output_file.write(data) on a file opened with 'wb': the bytes go to the end.
Written(file, data) == Observed(file \o data)

\* while channel.recv_ready(): data = stdout.read(len(channel.in_buffer));
\* output_file.write(data), once round the loop. The read may fail with the
\* transport; when nothing is ready the worker goes on to stderr.
RunReadStdout(t) ==
    /\ pc[t] = "w_stdout"
    /\ IF channel[t].in_buffer = <<>>
         THEN /\ pc' = [pc EXCEPT ![t] = "w_stderr"]
              /\ UNCHANGED <<frame, held, capture>>
         ELSE \/ /\ channel' = [channel EXCEPT ![t].in_buffer = <<>>]
                 /\ output_file' = [output_file EXCEPT
                                      ![t] = Written(output_file[t], channel[t].in_buffer)]
                 /\ UNCHANGED <<pc, frame, held>>
              \/ /\ ExitScopeRaised(t, "SSHException")
                 /\ UNCHANGED capture
    /\ UNCHANGED <<singleton, pool, pre>>
    /\ UNCHANGED <<need_stop, tasks, sup, stop_event, cmd_queue, res_queue, process, call, logging, registry>>

\* The number of bytes of the UTF-8 sequence that starts with this byte, 0 for
\* a byte that starts none.
Utf8Length(lead) ==
    IF lead < 128 THEN 1
    ELSE IF lead \in 194..223 THEN 2
    ELSE IF lead \in 224..239 THEN 3
    ELSE IF lead \in 240..244 THEN 4
    ELSE 0

\* The code point of a sequence whose lead byte and continuation bytes are given.
RECURSIVE Utf8Value(_, _)
Utf8Value(acc, rest) ==
    IF rest = <<>> THEN acc ELSE Utf8Value(acc * 64 + (Head(rest) - 128), Tail(rest))

\* What stands for the UnicodeDecodeError of the strict decoder.
DecodeError == <<-1>>

\* data.decode(encoding="utf8"): the code points of the bytes, or DecodeError
\* where the strict decoder raises: a byte that starts no sequence, a sequence
\* that is cut short, a byte that does not continue one.
RECURSIVE Decode(_)
Decode(data) ==
    IF data = <<>> THEN <<>>
    ELSE LET n == Utf8Length(Head(data))
         IN IF n = 0 \/ n > Len(data) THEN DecodeError
            ELSE IF \E i \in 2..n : data[i] \notin 128..191 THEN DecodeError
            ELSE LET rest == Decode(SubSeq(data, n + 1, Len(data)))
                     lead == IF n = 1 THEN Head(data)
                             ELSE IF n = 2 THEN Head(data) - 192
                             ELSE IF n = 3 THEN Head(data) - 224
                             ELSE Head(data) - 240
                 IN IF rest = DecodeError THEN DecodeError
                    ELSE <<Utf8Value(lead, SubSeq(data, 2, n))>> \o rest

\* self._logger.error(f'Recived new err data: {data.decode(encoding="utf8")}'):
\* the text is logged, or the UnicodeDecodeError leaves the with statement.
StderrLogged(t, text) ==
    IF text = DecodeError THEN ExitScopeRaised(t, "UnicodeDecodeError")
    ELSE /\ frame' = [frame EXCEPT ![t].logged = text]
         /\ UNCHANGED <<pc, held>>

\* while channel.recv_stderr_ready(): data = stderr.read(...); log it, once
\* round the loop. When nothing is ready the for statement is over, and the
\* test of the while statement follows.
RunReadStderr(t) ==
    /\ pc[t] = "w_stderr"
    /\ IF channel[t].in_stderr_buffer = <<>>
         THEN /\ LoopCheck(t, need_stop[t])
              /\ UNCHANGED channel
         ELSE /\ channel' = [channel EXCEPT ![t].in_stderr_buffer = <<>>]
              /\ StderrLogged(t, Decode(channel[t].in_stderr_buffer))
    /\ UNCHANGED <<singleton, pool, pre, output_file>>
    /\ UNCHANGED <<need_stop, tasks, sup, stop_event, cmd_queue, res_queue, process, call, logging, registry>>

\* The pcs of a worker whose remote command is running.
LoopPcs == {"w_poll", "w_stdout", "w_stderr"}

\* The remote command writes a byte to its stdout: paramiko's transport thread
\* puts it in the channel's buffer.
StdoutArrives(t, byte) ==
    /\ pc[t] \in LoopPcs
    /\ Len(channel[t].in_buffer) < MaxBuffer
    /\ channel' = [channel EXCEPT ![t].in_buffer = Append(@, byte),
                                  ![t].received = Observed(Append(@, byte))]
    /\ UNCHANGED <<singleton, pool, pc, frame, held, pre, output_file>>
    /\ UNCHANGED <<need_stop, tasks, sup, stop_event, cmd_queue, res_queue, process, call, logging, registry>>

\* The remote command writes a byte to its stderr.
StderrArrives(t, byte) ==
    /\ pc[t] \in LoopPcs
    /\ Len(channel[t].in_stderr_buffer) < MaxBuffer
    /\ channel' = [channel EXCEPT ![t].in_stderr_buffer = Append(@, byte)]
    /\ UNCHANGED <<singleton, pool, pc, frame, held, pre, output_file>>
    /\ UNCHANGED <<need_stop, tasks, sup, stop_event, cmd_queue, res_queue, process, call, logging, registry>>

\* The loop of a worker on whose channel no data arrives.
RunQuiet(t) == \E event \in QuietEvents : RunPoll(t, event)

\* --------------------------------------------------------------- the callers

\* The method has returned or raised; the thread is free again.
Return(t) ==
    /\ pc[t] = "done"
    /\ pc' = [pc EXCEPT ![t] = "idle"]
    /\ frame' = [frame EXCEPT ![t] = EmptyFrame]
    /\ UNCHANGED <<singleton, pool>>

\* One step inside SingletonMeta.__call__.
CtorStep(t) == CtorLock(t) \/ CtorReturn(t)

\* One step inside get_connection.
GetStep(t) == GetLock(t) \/ GetConnect(t) \/ GetLease(t)

\* One step inside release_connection.
RelStep(t) == RelPop(t) \/ RelScan(t) \/ RelDestroy(t)

\* One step inside release_connection where other threads use the pool at the
\* same time.
RelStepRacing(t) == RelPop(t) \/ RelScanFirst(t) \/ RelScanNext(t) \/ RelDestroy(t)

\* One step inside Dumper.run, outside the pool.
RunStep(t) == RunOpen(t) \/ RunBody(t, OneExitCode) \/ RunQuiet(t)

\* Methods run one at a time: a method is called only when no other is running.
SeqConstruct(t) ==
    /\ AllIdle
    /\ pre' = Snapshot
    /\ \E n \in Names : CallConstruct(t, n)
    /\ UNCHANGED <<manager, registry>>

SeqGet(t) ==
    /\ AllIdle
    /\ pre' = Snapshot
    /\ \E a \in Addresses, p \in PortArgs, c \in Credentials : CallGet(t, a, p, c)
    /\ UNCHANGED <<manager, registry>>

\* Any lease id may be passed: a live one or an unknown one.
SeqRelease(t) ==
    /\ AllIdle
    /\ pre' = Snapshot
    /\ \E id \in LeaseIds : CallRelease(t, id)
    /\ UNCHANGED <<manager, registry>>

SeqDestroy(t) == AllIdle /\ pre' = Snapshot /\ CallDestroy(t) /\ UNCHANGED <<manager, registry>>

SeqRun(t) ==
    /\ AllIdle
    /\ pre' = Snapshot
    /\ \E h \in Hosts : CallRun(t, h)
    /\ UNCHANGED <<tasks, sup, stop_event, cmd_queue, res_queue, process, call, capture, logging, registry>>

\* Between two calls: who holds which lease is not followed here, any thread may
\* release any id.
SeqReturn(t) ==
    /\ Return(t)
    /\ held' = [u \in Threads |-> {}]
    /\ pre' = [NoPre EXCEPT !.last = IF frame[t].op = "destroy" THEN "destroy" ELSE ""]
    /\ UNCHANGED <<manager, registry>>

Next ==
    \E t \in Threads :
        \/ SeqConstruct(t)
        \/ SeqGet(t)
        \/ SeqRelease(t)
        \/ SeqDestroy(t)
        \/ SeqRun(t)
        \/ CtorStep(t)
        \/ GetStep(t)
        \/ RelStep(t)
        \/ DestroyAll(t)
        \/ RunStep(t)
        \/ SeqReturn(t)

Spec == Init /\ [][Next]_vars

\* The state after the first SSHConnectionManager(name).
InitConstructed ==
    /\ instance = 1
    /\ inits = 1
    /\ name = "ssh_conn_manager"
    /\ first_name = name
    /\ cls_lock = NoThread
    /\ ssh_lock = NoThread
    /\ connections = EmptyMap
    /\ leases = EmptyMap
    /\ transports = <<>>
    /\ pc = [t \in Threads |-> "idle"]
    /\ frame = [t \in Threads |-> EmptyFrame]
    /\ held = [t \in Threads |-> {}]
    /\ pre = NoPre
    /\ ManagerInit

\* Threads call the methods whenever they are free.
ConcConstruct(t) == UNCHANGED <<pre, manager, registry>> /\ \E n \in Names : CallConstruct(t, n)

\* The credentials of the test suite.
TestCredentials == "test_user:test_password"

ConcGet(t) ==
    /\ UNCHANGED pre
    /\ \E a \in Addresses, p \in PortArgs : CallGet(t, a, p, TestCredentials)
    /\ UNCHANGED <<manager, registry>>

ConcReturn(t) == Return(t) /\ UNCHANGED <<held, pre, manager, registry>>

\* A thread releases the leases it holds.
ConcRelease(t) == UNCHANGED <<pre, manager, registry>> /\ \E h \in held[t] : CallRelease(t, h[1])

\* Threads acquire and release at the same time.
NextConc ==
    \E t \in Threads :
        \/ ConcGet(t)
        \/ ConcRelease(t)
        \/ GetStep(t)
        \/ RelStepRacing(t)
        \/ ConcReturn(t)

SpecConc == InitConstructed /\ [][NextConc]_vars

\* No thread releases here, so who holds which lease is not followed.
AcquireReturn(t) ==
    /\ Return(t)
    /\ held' = [u \in Threads |-> {}]
    /\ UNCHANGED pre
    /\ UNCHANGED <<manager, registry>>

\* Threads construct the manager and acquire at the same time.
NextAcquire ==
    \E t \in Threads :
        \/ ConcConstruct(t)
        \/ ConcGet(t)
        \/ CtorStep(t)
        \/ GetStep(t)
        \/ AcquireReturn(t)

SpecAcquire == Init /\ [][NextAcquire]_vars

\* ================================================================ the front
\* TaskManager of app/core/task_mngr.py, called by the foreground threads.

\* The names of the RPC methods; each is the name of the handler it reaches.
StartNames == {"start_pcap_dump", "start_log_dump"}

TaskNames == {"get_task_info", "stop_task"}

RpcNames == StartNames \cup TaskNames \cup {"get_all_tasks"}

\* The methods that end with assert isinstance(result.data, Task).
TaskMethods == StartNames \cup TaskNames

\* The host of the test suite.
TestHost == [ssh_address |-> "127.0.0.1", ssh_port |-> 10022, cred |-> TestCredentials]

\* The hosts the foreground threads start workers on.
ManagerHosts == {TestHost}

\* The commands whose results nobody has taken: queued, in the supervisor's
\* hands, or answered.
Pending ==
    Len(cmd_queue) + Len(res_queue) + (IF sup.cmd.tag # NoTag THEN 1 ELSE 0)

Tags == 1..(MaxPending + NumCallers)

TagsInUse ==
    {cmd_queue[i].tag : i \in DOMAIN cmd_queue} \cup {res_queue[i].tag : i \in DOMAIN res_queue}
        \cup {sup.cmd.tag} \cup {call[c].tag : c \in Callers}

\* The tag of the next call.
FreshTag == CHOOSE g \in Tags : g \notin TagsInUse /\ \A h \in Tags : h < g => h \in TagsInUse

\* The state of the pool and of the threads of the supervisor's process.
pool_side == <<singleton, pool, pc, frame, held, pre, capture>>

\* The workers a new process starts with: none is running.
NoWorkers ==
    /\ pc' = [t \in Threads |-> "idle"]
    /\ frame' = [t \in Threads |-> EmptyFrame]
    /\ held' = [t \in Threads |-> {}]
    /\ need_stop' = [t \in Threads |-> FALSE]

\* The name the supervisor gives the pool of its process.
SupervisorManagerName == "proc.ssh_mngr"

\* self._process = ProcessTaskManager(...); self._process.start(): a process
\* with an empty task table, a clear stop event and a pool of its own, built by
\* the first statement of run that touches it.
Spawn ==
    /\ process' = "started"
    /\ sup' = [SupDown EXCEPT !.pc = "poll"]
    /\ stop_event' = FALSE
    /\ tasks' = <<>>
    /\ instance' = inits + 1
    /\ inits' = inits + 1
    /\ name' = SupervisorManagerName
    /\ first_name' = SupervisorManagerName
    /\ cls_lock' = NoThread
    /\ ssh_lock' = NoThread
    /\ connections' = EmptyMap
    /\ leases' = EmptyMap
    /\ transports' = <<>>
    /\ NoWorkers

\* Bug: start() does not look at self._process.
FrontStartAgain(c) ==
    /\ call[c].pc = "idle"
    /\ call' = [call EXCEPT ![c] = [NoCall EXCEPT !.pc = "done", !.name = "start",
                                                  !.outcome = "returned"]]
    /\ Spawn /\ log_thread' = LogThreadRunning
    /\ UNCHANGED <<cmd_queue, res_queue, pre, capture, log_queue, handled, registry>>

\* TaskManager.start(), called by foreground thread c.
FrontStart(c) ==
    /\ call[c].pc = "idle"
    /\ call' = [call EXCEPT ![c] = [NoCall EXCEPT !.pc = "done", !.name = "start",
                                                  !.outcome = "returned"]]
    /\ IF process = "none"
         THEN Spawn /\ log_thread' = LogThreadRunning
         ELSE UNCHANGED <<process, sup, stop_event, tasks, singleton, pool, pc, frame, held,
                          need_stop, log_thread>>
    /\ UNCHANGED <<cmd_queue, res_queue, pre, capture, log_queue, handled, registry>>

\* Bug: the front does not look at self._process.
StartedAlways == TRUE

\* self._process is not None
Started == process # "none"

\* A typed RPC method builds its command and enters _send_rpc_command, which
\* raises RuntimeError('TaskManager not started!') when the front is not
\* started and puts the command on the queue otherwise.
FrontCall(c, cmd) ==
    /\ call[c].pc = "idle"
    /\ Pending < MaxPending
    /\ IF Started
         THEN /\ call' = [call EXCEPT ![c] = [NoCall EXCEPT !.pc = "wait", !.name = cmd.name,
                                                          !.task_id = cmd.task_id,
                                                          !.tag = FreshTag]]
              /\ cmd_queue' = Append(cmd_queue, [cmd EXCEPT !.tag = FreshTag])
         ELSE /\ call' = [call EXCEPT ![c] = [NoCall EXCEPT !.pc = "done", !.name = cmd.name,
                                                          !.task_id = cmd.task_id,
                                                          !.outcome = "raised",
                                                          !.error = "RuntimeError"]]
              /\ UNCHANGED cmd_queue
    /\ UNCHANGED <<need_stop, tasks, sup, stop_event, res_queue, process, pool_side, logging, registry>>

\* The commands the foreground threads send.
Commands ==
    {[NoCmd EXCEPT !.name = n, !.host = h] : n \in StartNames, h \in ManagerHosts}
        \cup {[NoCmd EXCEPT !.name = n, !.task_id = id] : n \in TaskNames, id \in TaskIds}
        \cup {[NoCmd EXCEPT !.name = "get_all_tasks"]}

\* result = self._res_queue.get(timeout=self.timeout) takes the oldest result,
\* whichever command it answers. An exception is raised again; a typed method
\* that expects a Task asserts that it got one.
FrontReceive(c) ==
    /\ call[c].pc = "wait"
    /\ res_queue # <<>>
    /\ res_queue' = Tail(res_queue)
    /\ LET result == Head(res_queue)
       IN call' = [call EXCEPT ![c].pc = "done",
                               ![c].result = result,
                               ![c].outcome = IF result.kind = "error"
                                                 \/ (call[c].name \in TaskMethods
                                                       /\ result.kind # "Task")
                                              THEN "raised" ELSE "returned",
                               ![c].error = IF result.kind = "error" THEN result.error
                                            ELSE IF call[c].name \in TaskMethods
                                                      /\ result.kind # "Task"
                                                 THEN "AssertionError" ELSE ""]
    /\ UNCHANGED <<need_stop, tasks, sup, stop_event, cmd_queue, process, pool_side, logging, registry>>

\* Bug: a front call that times out takes its command back from the queue.
FrontTimeoutWithdraws(c) ==
    /\ call[c].pc = "wait"
    /\ res_queue = <<>>
    /\ call' = [call EXCEPT ![c].pc = "done", ![c].outcome = "raised",
                            ![c].error = "TimeoutError"]
    /\ cmd_queue' = SelectSeq(cmd_queue, LAMBDA cmd : cmd.tag # call[c].tag)
    /\ UNCHANGED <<need_stop, tasks, sup, stop_event, res_queue, process, pool_side, logging, registry>>

\* except Empty: raise TimeoutError: no result arrived within self.timeout
\* seconds. The command stays where it is.
FrontTimeout(c) ==
    /\ call[c].pc = "wait"
    /\ res_queue = <<>>
    /\ call' = [call EXCEPT ![c].pc = "done", ![c].outcome = "raised",
                            ![c].error = "TimeoutError"]
    /\ UNCHANGED <<need_stop, tasks, sup, stop_event, cmd_queue, res_queue, process, pool_side, logging, registry>>

\* TaskManager.stop(): on a started front it sets the stop event and joins the
\* process; on a front that is not started it does nothing.
FrontStop(c) ==
    /\ call[c].pc = "idle"
    /\ IF Started
         THEN /\ stop_event' = TRUE
              /\ call' = [call EXCEPT ![c] = [NoCall EXCEPT !.pc = "join", !.name = "stop"]]
         ELSE /\ call' = [call EXCEPT ![c] = [NoCall EXCEPT !.pc = "done", !.name = "stop",
                                                          !.outcome = "returned"]]
              /\ UNCHANGED stop_event
    /\ UNCHANGED <<need_stop, tasks, sup, cmd_queue, res_queue, process, pool_side, logging, registry>>

\* self._process.join() returns when the process has exited; then
\* self._process = None, and self._log_thread.need_stop.set().
FrontJoined(c) ==
    /\ call[c].pc = "join"
    /\ sup.pc = "exited"
    /\ process' = "none"
    /\ log_thread' = [log_thread EXCEPT !.need_stop = TRUE]
    /\ call' = [call EXCEPT ![c].pc = "join_log"]
    /\ UNCHANGED <<need_stop, tasks, sup, stop_event, cmd_queue, res_queue, pool_side,
                    log_queue, handled, registry>>

\* self._log_thread.join() returns when the thread has ended; then
\* self._log_thread = None, and stop() returns.
FrontLogJoined(c) ==
    /\ call[c].pc = "join_log"
    /\ log_thread.pc = "exited"
    /\ log_thread' = NoLogThread
    /\ call' = [call EXCEPT ![c].pc = "done", ![c].outcome = "returned"]
    /\ UNCHANGED <<need_stop, tasks, sup, stop_event, cmd_queue, res_queue, process, pool_side,
                    log_queue, handled, registry>>

\* The front method has returned or raised; the foreground thread is free again.
FrontReturn(c) ==
    /\ call[c].pc = "done"
    /\ call' = [call EXCEPT ![c] = NoCall]
    /\ UNCHANGED <<need_stop, tasks, sup, stop_event, cmd_queue, res_queue, process, pool_side, logging, registry>>

\* ======================================================== the log forwarder
\* LogProxyThread of app/core/task_mngr.py, a thread of the front's process.

\* while not self.need_stop.is_set(): once round the loop of LogProxyThread.run,
\* from the get to the next test of the stop event. The get returns the oldest
\* record, which is handed to the logger, or raises Empty after a second; a
\* round that finds the queue empty and the event clear changes nothing.
LogStep ==
    /\ log_thread.pc = "get"
    /\ log_queue # <<>> \/ log_thread.need_stop
    /\ IF log_queue = <<>>
         THEN UNCHANGED <<log_queue, handled>>
         ELSE /\ log_queue' = Tail(log_queue)
              /\ handled' = Append(handled, Head(log_queue))
    /\ log_thread' = [log_thread EXCEPT !.pc = IF log_thread.need_stop THEN "exited" ELSE "get"]
    /\ UNCHANGED <<need_stop, tasks, sup, stop_event, cmd_queue, res_queue, process, call,
                    pool_side, registry>>

\* =========================================================== the supervisor
\* ProcessTaskManager of app/core/task_mngr.py. Its workers are threads of its
\* process: a worker is the thread that runs Dumper.run.

\* Thread.is_alive(): true from start() until run has ended.
IsAlive(w) == pc[w] \notin {"idle", "done"}

\* The index of task id in the table, 0 when it is not there.
IndexOf(table, id) ==
    IF \E i \in DOMAIN table : table[i].task_id = id
    THEN CHOOSE i \in DOMAIN table : table[i].task_id = id
    ELSE 0

\* Bug: a new worker is put in front of the others.
RegisteredFirst(table, entry) == <<entry>> \o table

\* self._tasks[task_id] = dumper: a new key goes to the end, an existing key
\* keeps its place and gets the new value.
Registered(table, entry) ==
    IF IndexOf(table, entry.task_id) = 0
    THEN Append(table, entry)
    ELSE [table EXCEPT ![IndexOf(table, entry.task_id)] = entry]

\* self._tasks.pop(task_id): the table without the entry at index i.
Popped(table, i) == SubSeq(table, 1, i - 1) \o SubSeq(table, i + 1, Len(table))

\* os.getpid() of the supervisor's process.
Pid == 4242

\* f'proc_{os.getpid()}.pcap_{task_id}' and f'proc_{os.getpid()}.log_{task_id}',
\* as the pieces the f-string joins.
DumperName(type, id) ==
    <<"proc_", Pid, ".", IF type = TaskType.PCAP THEN "pcap_" ELSE "log_", id>>

\* Bug: both start handlers build a LogDump.
TypeOfLogAlways(cmd_name) == TaskType.LOG

\* The task type of the worker class a start handler builds.
TypeOf(cmd_name) == IF cmd_name = "start_pcap_dump" THEN TaskType.PCAP ELSE TaskType.LOG

\* Task(task_id=..., name=dumper.name, task_type=dumper.task_type,
\*      is_alive=dumper.is_alive())
SnapshotOf(entry) ==
    [task_id |-> entry.task_id, name |-> entry.name, task_type |-> entry.task_type,
     is_alive |-> IsAlive(entry.dumper)]

\* LookupError(f'Task with id="{task_id}" not found in task list.')
NotFound(id) ==
    [NoResult EXCEPT !.kind = "error", !.error = "LookupError",
                     !.message = <<"Task with id=\"", id, "\" not found in task list.">>]

TaskResult(snapshot) == [NoResult EXCEPT !.kind = "Task", !.task = snapshot]

ListResult(snapshots) == [NoResult EXCEPT !.kind = "list", !.list = snapshots]

\* Bug: the loop does not look at the stop event.
SupCheckGoesOn ==
    /\ sup.pc = "poll"
    /\ sup' = [sup EXCEPT !.pc = "get"]
    /\ UNCHANGED <<need_stop, tasks, stop_event, cmd_queue, res_queue, process, call, pool_side, logging, registry>>

\* while not self.need_stop.is_set(): the loop goes on to the queue, or is left.
SupCheck ==
    /\ sup.pc = "poll"
    /\ sup' = IF stop_event THEN [sup EXCEPT !.pc = "stopping", !.next = 1]
                            ELSE [sup EXCEPT !.pc = "get"]
    /\ UNCHANGED <<need_stop, tasks, stop_event, cmd_queue, res_queue, process, call, pool_side, logging, registry>>

\* cmd = self._cmd_queue.get(timeout=1): the oldest command, or Empty after a
\* second, and then continue.
SupTake ==
    /\ sup.pc = "get"
    /\ IF cmd_queue = <<>>
         THEN /\ sup' = [sup EXCEPT !.pc = "poll"]
              /\ UNCHANGED cmd_queue
         ELSE /\ sup' = [sup EXCEPT !.pc = "dispatch", !.cmd = Head(cmd_queue),
                                    !.before = tasks]
              /\ cmd_queue' = Tail(cmd_queue)
    /\ UNCHANGED <<need_stop, tasks, stop_event, res_queue, process, call, pool_side>>

\* The same where the log queue is not followed.
SupGet == SupTake /\ UNCHANGED <<logging, registry>>

\* The log queue has room for a record that is followed.
RoomToLog == Len(log_queue) + Len(handled) < MaxRecords

\* logger.info(...) in run: the QueueHandler of the supervisor's logger puts
\* the record on the log queue.
Emitted(record) == Append(log_queue, record)

\* The same with the record that follows the get: logger.info('Trying to
\* execute command ...') for the command taken.
SupGetLogs ==
    /\ cmd_queue # <<>> => RoomToLog
    /\ SupTake
    /\ log_queue' = IF cmd_queue = <<>> THEN log_queue
                    ELSE Emitted([at |-> "dispatch", of |-> Head(cmd_queue).name])
    /\ UNCHANGED <<log_thread, handled, registry>>

\* Bug: a drawn task id is never checked against the task table.
TaskCollidesNever(id) == FALSE

\* if identifier in self._tasks
TaskCollides(id) == IndexOf(tasks, id) # 0

\* The Dumper object a start handler builds: a thread that runs nothing yet.
NewDumper == CHOOSE w \in Threads : pc[w] = "idle" /\ \A v \in Threads : v < w => pc[v] # "idle"

\* _start_pcap_dump and _start_log_dump up to the registration:
\* _get_random_task_id draws an id, and draws again on a collision; the worker
\* is built with its name, started, and put in the table under the id.
HandleStart ==
    /\ sup.pc = "dispatch"
    /\ sup.cmd.name \in StartNames
    /\ \E w \in Threads : pc[w] = "idle"
    /\ \E id \in TaskIds :
         IF TaskCollides(id)
         THEN UNCHANGED <<pc, frame, need_stop, tasks, sup>>
         ELSE /\ CallRun(NewDumper, sup.cmd.host)
              /\ tasks' = Registered(tasks, [task_id |-> id, dumper |-> NewDumper,
                                             name |-> DumperName(TypeOf(sup.cmd.name), id),
                                             task_type |-> TypeOf(sup.cmd.name)])
              /\ sup' = [sup EXCEPT !.pc = "snapshot", !.task_id = id, !.dumper = NewDumper]
    /\ UNCHANGED <<singleton, pool, held, pre, stop_event, cmd_queue, res_queue, process, call,
                    capture, logging, registry>>

\* RuntimeError("can't start new thread"), which Thread.start() raises when the
\* system gives the process no further thread.
StartFailed ==
    [NoResult EXCEPT !.kind = "error", !.error = "RuntimeError",
                     !.message = <<"can't start new thread">>]

\* Bug: the error of a handler is not caught, and run ends with it.
HandleStartRaisesUncaught ==
    /\ sup.pc = "dispatch"
    /\ sup.cmd.name \in StartNames
    /\ sup' = [sup EXCEPT !.pc = "exited"]
    /\ UNCHANGED <<need_stop, tasks, stop_event, cmd_queue, res_queue, process, call, pool_side,
                    logging, registry>>

\* A start handler in which dumper.start() raises: nothing is registered, and
\* except Exception as error: returned_value = error makes the error the
\* value that run puts on the result queue.
HandleStartRaises ==
    /\ sup.pc = "dispatch"
    /\ sup.cmd.name \in StartNames
    /\ sup' = [sup EXCEPT !.pc = "reply", !.returned_value = StartFailed]
    /\ UNCHANGED <<need_stop, tasks, stop_event, cmd_queue, res_queue, process, call, pool_side,
                    logging, registry>>

\* Bug: the snapshot of a new worker says alive without asking the thread.
StartedAliveAlways(entry) == [SnapshotOf(entry) EXCEPT !.is_alive = TRUE]

\* The return statement of a start handler: the Task is built from the worker
\* as it is now, after start() and the registration.
StartedSnapshot(entry) == SnapshotOf(entry)

HandleStartReturn ==
    /\ sup.pc = "snapshot"
    /\ sup' = [sup EXCEPT !.pc = "reply",
                          !.returned_value =
                              TaskResult(StartedSnapshot(tasks[IndexOf(tasks, sup.task_id)]))]
    /\ UNCHANGED <<need_stop, tasks, stop_event, cmd_queue, res_queue, process, call, pool_side, logging, registry>>

\* _get_task_info: the snapshot of the worker under the id, or the LookupError
\* as the returned value.
HandleGetTaskInfo ==
    /\ sup.pc = "dispatch"
    /\ sup.cmd.name = "get_task_info"
    /\ LET i == IndexOf(tasks, sup.cmd.task_id)
       IN sup' = [sup EXCEPT !.pc = "reply",
                             !.returned_value = IF i = 0 THEN NotFound(sup.cmd.task_id)
                                                ELSE TaskResult(SnapshotOf(tasks[i]))]
    /\ UNCHANGED <<need_stop, tasks, stop_event, cmd_queue, res_queue, process, call, pool_side, logging, registry>>

\* _get_all_tasks: one snapshot per entry of the table, in the order of the table.
HandleGetAllTasks ==
    /\ sup.pc = "dispatch"
    /\ sup.cmd.name = "get_all_tasks"
    /\ sup' = [sup EXCEPT !.pc = "reply",
                          !.returned_value =
                              ListResult([i \in DOMAIN tasks |-> SnapshotOf(tasks[i])])]
    /\ UNCHANGED <<need_stop, tasks, stop_event, cmd_queue, res_queue, process, call, pool_side, logging, registry>>

\* Bug: stop() turns the flag over.
StopFlagFlips(w) == [need_stop EXCEPT ![w] = ~need_stop[w]]

\* Bug: stop() joins the thread without setting its flag.
StopFlagNever(w) == need_stop

\* Dumper.stop() up to the join: if self.is_alive(): self._need_stop = True.
StopFlag(w) == [need_stop EXCEPT ![w] = need_stop[w] \/ IsAlive(w)]

\* Bug: a missing id is popped without a word and answered with an empty Task.
StopMissingSilent(id) == TaskResult(NoSnapshot)

\* dumper = self._tasks.pop(task_id, None); if dumper is None: return LookupError(...)
StopMissing(id) == NotFound(id)

\* _stop_task up to the join: the entry is taken out of the table and the
\* worker is told to stop.
HandleStop ==
    /\ sup.pc = "dispatch"
    /\ sup.cmd.name = "stop_task"
    /\ LET i == IndexOf(tasks, sup.cmd.task_id)
       IN IF i = 0
          THEN /\ sup' = [sup EXCEPT !.pc = "reply",
                                     !.returned_value = StopMissing(sup.cmd.task_id)]
               /\ UNCHANGED <<tasks, need_stop>>
          ELSE /\ tasks' = Popped(tasks, i)
               /\ need_stop' = StopFlag(tasks[i].dumper)
               /\ sup' = [sup EXCEPT !.pc = "join", !.task_id = tasks[i].task_id,
                                     !.dumper = tasks[i].dumper,
                                     !.popped = tasks[i]]
    /\ UNCHANGED <<stop_event, cmd_queue, res_queue, process, call, pool_side, logging, registry>>

\* Bug: stop() does not wait for the thread.
JoinedAtOnce(w) == TRUE

\* self.join() returns when the thread has ended.
Joined(w) == ~IsAlive(w)

\* _stop_task after the join: the Task is built from the stopped worker.
HandleStopReturn ==
    /\ sup.pc = "join"
    /\ Joined(sup.dumper)
    /\ sup' = [sup EXCEPT !.pc = "reply", !.returned_value = TaskResult(SnapshotOf(sup.popped))]
    /\ UNCHANGED <<need_stop, tasks, stop_event, cmd_queue, res_queue, process, call, pool_side, logging, registry>>

\* The handler has returned: the Dumper that _stop_task took out of the table
\* is referenced by nothing any more.
Forgotten ==
    IF sup.cmd.name = "stop_task" /\ sup.dumper # NoThread /\ ~IsAlive(sup.dumper)
    THEN /\ Return(sup.dumper)
         /\ held' = [held EXCEPT ![sup.dumper] = {}]
         /\ need_stop' = [need_stop EXCEPT ![sup.dumper] = FALSE]
    ELSE UNCHANGED <<singleton, pool, pc, frame, held, need_stop>>

\* self._res_queue.put(TaskManagerResult(returned_value)), and back to the
\* head of the loop.
SupReply ==
    /\ sup.pc = "reply"
    /\ res_queue' = Append(res_queue, [sup.returned_value EXCEPT !.tag = sup.cmd.tag])
    /\ sup' = [SupDown EXCEPT !.pc = "poll"]
    /\ Forgotten
    /\ UNCHANGED <<tasks, stop_event, cmd_queue, process, call, pre, capture, logging, registry>>

\* After the loop: for task_id, task in self._tasks.items(): task.stop(), here
\* up to the join of the worker at index sup.next.
SupStopNext ==
    /\ sup.pc = "stopping"
    /\ sup.next <= Len(tasks)
    /\ need_stop' = StopFlag(tasks[sup.next].dumper)
    /\ sup' = [sup EXCEPT !.pc = "stop_join", !.dumper = tasks[sup.next].dumper]
    /\ UNCHANGED <<tasks, stop_event, cmd_queue, res_queue, process, call, pool_side>>

\* The same where the log queue is not followed.
SupStopWorker == SupStopNext /\ UNCHANGED <<logging, registry>>

\* The same with the record that precedes the stop: logger.info('Stopping
\* task ...') for the entry.
SupStopWorkerLogs ==
    /\ RoomToLog
    /\ SupStopNext
    /\ log_queue' = Emitted([at |-> "stopping", of |-> tasks[sup.next].task_id])
    /\ UNCHANGED <<log_thread, handled, registry>>

\* The join of that worker returns; the loop goes to the next entry.
SupStopJoined ==
    /\ sup.pc = "stop_join"
    /\ Joined(sup.dumper)
    /\ sup' = [sup EXCEPT !.pc = "stopping", !.next = sup.next + 1, !.dumper = NoThread]
    /\ UNCHANGED <<need_stop, tasks, stop_event, cmd_queue, res_queue, process, call, pool_side, logging, registry>>

\* run returns and the process exits.
SupExit ==
    /\ sup.pc = "stopping"
    /\ sup.next > Len(tasks)
    /\ sup' = [sup EXCEPT !.pc = "exited"]
    /\ UNCHANGED <<need_stop, tasks, stop_event, cmd_queue, res_queue, process, call, pool_side, logging, registry>>

\* One step of the supervisor's thread.
SupHandle ==
    \/ SupCheck
    \/ HandleStart
    \/ HandleStartRaises
    \/ HandleStartReturn
    \/ HandleGetTaskInfo
    \/ HandleGetAllTasks
    \/ HandleStop
    \/ HandleStopReturn
    \/ SupReply
    \/ SupStopJoined
    \/ SupExit

SupStep == SupGet \/ SupStopWorker \/ SupHandle

\* One step of a worker thread of the supervisor's process.
WorkerStep(w) == CtorStep(w) \/ GetStep(w) \/ RunStep(w) \/ RelStep(w)

\* ------------------------------------------------- the task manager at work

\* The start commands that are on their way to their handler.
PendingStarts ==
    Cardinality({i \in DOMAIN cmd_queue : cmd_queue[i].name \in StartNames})
        + (IF sup.pc = "dispatch" /\ sup.cmd.name \in StartNames THEN 1 ELSE 0)

\* The id spaces, the transport counter and the threads are not exhausted by
\* the workers that are running or about to be started.
StartRoom ==
    /\ Cardinality(DOMAIN leases) + Cardinality(Acquiring) + PendingStarts < NumIds
    /\ Len(transports) + Cardinality(Acquiring) + PendingStarts < MaxTransports
    /\ Len(tasks) + PendingStarts < NumTaskIds
    /\ Cardinality({w \in Threads : pc[w] # "idle"}) + PendingStarts < NumThreads

\* A foreground thread calls an RPC method whenever it is free.
ManagerCall(c) ==
    \E cmd \in Commands :
        /\ cmd.name \in StartNames => StartRoom
        /\ FrontCall(c, cmd)

\* The thread that uses the front when it is used by one thread.
MainThread == 1

\* One command per RPC method.
RpcCommands ==
    {[NoCmd EXCEPT !.name = n, !.host = TestHost] : n \in StartNames}
        \cup {[NoCmd EXCEPT !.name = n, !.task_id = 1] : n \in TaskNames}
        \cup {[NoCmd EXCEPT !.name = "get_all_tasks"]}

RpcCall(c) ==
    \E cmd \in RpcCommands :
        /\ cmd.name \in StartNames => StartRoom
        /\ FrontCall(c, cmd)

\* The front is started once.
RpcStart(c) == inits = 0 /\ FrontStart(c)

\* The state after TaskManager(name).start(): the process is spawned and its
\* run has built the pool.
InitStarted ==
    /\ instance = 1
    /\ inits = 1
    /\ name = SupervisorManagerName
    /\ first_name = name
    /\ cls_lock = NoThread
    /\ ssh_lock = NoThread
    /\ connections = EmptyMap
    /\ leases = EmptyMap
    /\ transports = <<>>
    /\ pc = [t \in Threads |-> "idle"]
    /\ frame = [t \in Threads |-> EmptyFrame]
    /\ held = [t \in Threads |-> {}]
    /\ pre = NoPre
    /\ need_stop = [t \in Threads |-> FALSE]
    /\ tasks = <<>>
    /\ sup = [SupDown EXCEPT !.pc = "poll"]
    /\ stop_event = FALSE
    /\ cmd_queue = <<>>
    /\ res_queue = <<>>
    /\ process = "started"
    /\ call = [c \in Callers |-> NoCall]
    /\ channel = [t \in Threads |-> NoChannel]
    /\ output_file = [t \in Threads |-> <<>>]
    /\ log_queue = <<>>
    /\ log_thread = LogThreadRunning
    /\ handled = <<>>
    /\ registry = NoRegistry

\* The steps of the supervisor when no worker thread gets to run: a started
\* worker is a thread that has not run yet, and no join of a live worker returns.
SupDispatch ==
    \/ SupCheck
    \/ SupGet
    \/ HandleStart
    \/ HandleStartRaises
    \/ HandleStartReturn
    \/ HandleGetTaskInfo
    \/ HandleGetAllTasks
    \/ HandleStop
    \/ SupReply

\* The same, with the shutdown of a supervisor whose stop event is set.
SupServe == SupDispatch \/ SupStopWorker \/ SupExit

\* One foreground thread starts the front, uses it one call after the other,
\* with calls that time out, and stops it; the supervisor serves it. The
\* workers' own steps are left to SpecSupervisor.
NextRpc ==
    \/ RpcStart(MainThread)
    \/ RpcCall(MainThread)
    \/ FrontReceive(MainThread)
    \/ FrontTimeout(MainThread)
    \/ FrontStop(MainThread)
    \/ FrontJoined(MainThread)
    \/ FrontLogJoined(MainThread)
    \/ FrontReturn(MainThread)
    \/ LogStep
    \/ SupServe

SpecRpc == Init /\ [][NextRpc]_vars

\* The front is started at any moment, a few times in all.
FrontStarts(c) == inits < MaxSpawns /\ FrontStart(c)

\* One foreground thread starts and stops the front again and again, and uses
\* it in between; the supervisor of the day serves it.
NextFront ==
    \/ FrontStarts(MainThread)
    \/ RpcCall(MainThread)
    \/ FrontReceive(MainThread)
    \/ FrontTimeout(MainThread)
    \/ FrontStop(MainThread)
    \/ FrontJoined(MainThread)
    \/ FrontLogJoined(MainThread)
    \/ FrontReturn(MainThread)
    \/ LogStep
    \/ SupServe

SpecFront == Init /\ [][NextFront]_vars

\* ------------------------------------------- commands that have no handler

\* The names that have a handler: run looks for the attribute '_' + name.
HandlerNames == StartNames \cup TaskNames \cup {"get_all_tasks"}

\* The other names for which ProcessTaskManager has an attribute '_' + name:
\* the method _get_random_task_id and the fields set by __init__.
OtherAttributes ==
    {"get_random_task_id", "logger", "log_queue", "cmd_queue", "res_queue", "tasks"}

\* Names that no front method sends: one that names nothing, one that names a
\* method that takes no command, one that names a field.
OtherNames == {"restart", "get_random_task_id", "tasks"}

\* Exception(f'Unknown command: "{cmd.name}"')
UnknownCommand(n) ==
    [NoResult EXCEPT !.kind = "error", !.error = "Exception",
                     !.message = <<"Unknown command: \"", n, "\"">>]

\* method(cmd) where method is not a handler: the call raises TypeError (one
\* argument too many, or an object that cannot be called), which run catches.
NotCallable(n) ==
    [NoResult EXCEPT !.kind = "error", !.error = "TypeError", !.message = <<n>>]

\* method = getattr(self, f'_{cmd.name}', None); returned_value = Exception(...)
\* if method is None else method(cmd), for a name without a handler.
HandleOther ==
    /\ sup.pc = "dispatch"
    /\ sup.cmd.name \notin HandlerNames
    /\ sup' = [sup EXCEPT !.pc = "reply",
                          !.returned_value = IF sup.cmd.name \in OtherAttributes
                                             THEN NotCallable(sup.cmd.name)
                                             ELSE UnknownCommand(sup.cmd.name)]
    /\ UNCHANGED <<need_stop, tasks, stop_event, cmd_queue, res_queue, process, call, pool_side, logging, registry>>

\* _send_rpc_command(TaskManagerCommand(name)) with one of the other names.
SendOther(c) == \E n \in OtherNames : FrontCall(c, [NoCmd EXCEPT !.name = n])

\* One foreground thread sends the commands of the RPC methods and commands
\* with other names to a started front; the supervisor serves them.
NextOther ==
    \/ RpcCall(MainThread)
    \/ SendOther(MainThread)
    \/ FrontReceive(MainThread)
    \/ FrontReturn(MainThread)
    \/ SupDispatch
    \/ HandleOther

SpecOther == InitStarted /\ [][NextOther]_vars

\* The foreground threads use a started front at the same time and wait for
\* their results; the supervisor serves them.
NextCallers ==
    \/ \E c \in Callers :
          \/ RpcCall(c)
          \/ FrontReceive(c)
          \/ FrontReturn(c)
    \/ SupDispatch

SpecCallers == InitStarted /\ [][NextCallers]_vars

\* One foreground thread uses a started front, one call after the other,
\* waits for each result, and stops the front in the end; the supervisor and
\* its workers run at their own pace.
NextSupervisor ==
    \/ ManagerCall(MainThread)
    \/ FrontReceive(MainThread)
    \/ FrontReturn(MainThread)
    \/ FrontStop(MainThread)
    \/ FrontJoined(MainThread)
    \/ FrontLogJoined(MainThread)
    \/ LogStep
    \/ SupStep
    \/ \E w \in Threads : WorkerStep(w)

SpecSupervisor == InitStarted /\ [][NextSupervisor]_vars

\* The same with the log queue followed: each command taken and each worker
\* stopped at shutdown is logged, and the log thread of the front forwards the
\* records at its own pace.
NextLog ==
    \/ ManagerCall(MainThread)
    \/ FrontReceive(MainThread)
    \/ FrontReturn(MainThread)
    \/ FrontStop(MainThread)
    \/ FrontJoined(MainThread)
    \/ FrontLogJoined(MainThread)
    \/ LogStep
    \/ SupGetLogs
    \/ SupStopWorkerLogs
    \/ SupHandle
    \/ \E w \in Threads : WorkerStep(w)

SpecLog == InitStarted /\ [][NextLog]_vars

\* ------------------------------------------------------- one worker at work

\* The worker that is followed through its loop.
FirstWorker == 1

\* Bytes of a stdout stream: enough to tell one byte from the next.
StdoutBytes == {97, 98}

\* Bytes of a stderr stream: the two bytes of an e with acute accent in UTF-8,
\* and a byte that no UTF-8 text holds.
StderrBytes == {195, 169, 255}

\* dumper = PCAPDump(...); dumper.start(): the thread runs Dumper.run.
DumperStart(t) ==
    /\ CallRun(t, TestHost)
    /\ UNCHANGED <<singleton, pool, held, pre, capture>>
    /\ UNCHANGED <<tasks, sup, stop_event, cmd_queue, res_queue, process, call, logging, registry>>

\* Dumper.stop() up to the join, called by the thread that owns the worker.
DumperStop(t) ==
    /\ pc[t] # "idle"
    /\ need_stop' = StopFlag(t)
    /\ UNCHANGED <<pool_side, tasks, sup, stop_event, cmd_queue, res_queue, process, call,
                    logging, registry>>

\* One step of the worker's thread, with the events and the exit codes that the
\* remote side may produce.
DumperStep(t) ==
    \/ CtorStep(t)
    \/ GetStep(t)
    \/ RunOpen(t)
    \/ RunBody(t, ExitCodes)
    \/ \E event \in Events : RunPoll(t, event)
    \/ RunReadStdout(t)
    \/ RunReadStderr(t)
    \/ RelStep(t)

\* One worker is started, runs against a remote command that writes to stdout
\* and to stderr at its own pace, and is stopped at any moment.
NextWorker ==
    \/ DumperStart(FirstWorker)
    \/ DumperStop(FirstWorker)
    \/ DumperStep(FirstWorker)
    \/ \E byte \in StdoutBytes : StdoutArrives(FirstWorker, byte)
    \/ \E byte \in StderrBytes : StderrArrives(FirstWorker, byte)

SpecWorker == InitStarted /\ [][NextWorker]_vars

\* The worker's thread is scheduled again and again.
SpecWorkerFair == SpecWorker /\ WF_vars(DumperStep(FirstWorker))

\* ------------------------------------------- the descriptor of the channel

\* file_descriptor = channel.fileno(): the descriptor is readable as long as
\* one of the channel's buffers holds bytes.
Readable(t) == channel[t].in_buffer # <<>> \/ channel[t].in_stderr_buffer # <<>>

\* What epoll.poll(1) may report for that descriptor: read-ready is among the
\* bits whenever the descriptor is readable.
Reported(t) == {event \in Events : Readable(t) => "EPOLLIN" \in event}

\* One step of the worker's thread where the poll reports what the descriptor
\* has.
StreamStep(t) ==
    \/ CtorStep(t)
    \/ GetStep(t)
    \/ RunOpen(t)
    \/ RunBody(t, ExitCodes)
    \/ \E event \in Reported(t) : RunPoll(t, event)
    \/ RunReadStdout(t)
    \/ RunReadStderr(t)
    \/ RelStep(t)

NextStream ==
    \/ DumperStart(FirstWorker)
    \/ DumperStop(FirstWorker)
    \/ StreamStep(FirstWorker)
    \/ \E byte \in StdoutBytes : StdoutArrives(FirstWorker, byte)
    \/ \E byte \in StderrBytes : StderrArrives(FirstWorker, byte)

SpecStream == InitStarted /\ [][NextStream]_vars

\* ------------------------------------------------- the front is stopped

\* The steps of the supervisor that serve start commands and the shutdown.
SupStarts ==
    \/ SupCheck
    \/ SupGet
    \/ HandleStart
    \/ HandleStartRaises
    \/ HandleStartReturn
    \/ SupReply
    \/ SupStopWorker
    \/ SupStopJoined
    \/ SupExit

\* A start call, made while no worker has been started: the front has one worker.
StopCall(c) ==
    /\ StartRoom
    /\ PendingStarts = 0
    /\ \A w \in Threads : pc[w] = "idle"
    /\ FrontCall(c, [NoCmd EXCEPT !.name = "start_pcap_dump", !.host = TestHost])

\* One foreground thread starts a worker on a started front and stops the
\* front; the remote command of the worker writes to stdout at its own pace.
NextStop ==
    \/ StopCall(MainThread)
    \/ FrontReceive(MainThread)
    \/ FrontReturn(MainThread)
    \/ FrontStop(MainThread)
    \/ FrontJoined(MainThread)
    \/ FrontLogJoined(MainThread)
    \/ LogStep
    \/ SupStarts
    \/ DumperStep(FirstWorker)
    \/ \E byte \in StdoutBytes : StdoutArrives(FirstWorker, byte)

SpecStop == InitStarted /\ [][NextStop]_vars

\* The supervisor's process, the worker's thread, the log thread and the
\* thread that waits in stop() are scheduled again and again.
SpecStopFair ==
    /\ SpecStop
    /\ WF_vars(SupStarts)
    /\ WF_vars(LogStep)
    /\ WF_vars(FrontJoined(MainThread))
    /\ WF_vars(FrontLogJoined(MainThread))
    /\ WF_vars(DumperStep(FirstWorker))

\* ------------------------------------------------- workers on two hosts

\* Two hosts, which are two keys of the pool.
ExitHosts == {[TestHost EXCEPT !.ssh_port = p] : p \in PortNumbers}

ExitStart(t) ==
    /\ \E host \in ExitHosts : CallRun(t, host)
    /\ UNCHANGED <<singleton, pool, held, pre, capture>>
    /\ UNCHANGED <<tasks, sup, stop_event, cmd_queue, res_queue, process, call, logging, registry>>

\* The threads of one process run a worker each, on one host or on two, on
\* quiet channels, and each worker is stopped at any moment or ends by hangup.
NextExit ==
    \E t \in Threads :
        \/ ExitStart(t)
        \/ DumperStop(t)
        \/ CtorStep(t)
        \/ GetStep(t)
        \/ RunStep(t)
        \/ RelStepRacing(t)

SpecExit == InitStarted /\ [][NextExit]_vars

\* ------------------------------------------------ workers and their files

\* The names of output files that start commands carry.
Paths == {"first.pcap", "second.pcap"}

\* A start handler: dumper = PCAPDump(name, *cmd.args, **cmd.kwargs);
\* dumper.start(), with the output file the command names.
FileStart(t) ==
    /\ \E path \in Paths : CallRunInto(t, TestHost, path)
    /\ UNCHANGED <<singleton, pool, held, pre, capture>>
    /\ UNCHANGED <<tasks, sup, stop_event, cmd_queue, res_queue, process, call, logging, registry>>

\* Workers are started on the files that the commands name, run on quiet
\* channels, and are stopped at any moment.
NextFiles ==
    \E t \in Threads :
        \/ FileStart(t)
        \/ DumperStop(t)
        \/ CtorStep(t)
        \/ GetStep(t)
        \/ RunStep(t)
        \/ RelStep(t)

SpecFiles == InitStarted /\ [][NextFiles]_vars

\* ======================================================== the host registry
\* HostRepository of app/db/hosts.py behind the routes of app/api/hosts.py.

HostIds == 1..NumHostIds

\* Host.name of a Host whose name is not set.
NoHostName == ""

HostNames == {"first_service", "second_service"}

HostPorts == {9022, 9023}

\* The Host of a request body: host_id and name may be left unset, and the
\* required fields are followed by ssh_port.
HostBodies == [host_id : {NoHostId} \cup HostIds, name : {NoHostName} \cup HostNames,
               ssh_port : HostPorts]

\* values(**host.model_dump(exclude_unset=True)) on a row: the fields the body
\* sets take its values, the others stay. The primary key is handled apart.
UpdatedRow(row, body) ==
    [name |-> IF body.name = NoHostName THEN row.name ELSE body.name,
     ssh_port |-> body.ssh_port]

\* The row id of an insert: the body's host_id when it is set, or one more
\* than the largest id of the table.
InsertedKey(table, body) ==
    IF body.host_id # NoHostId THEN body.host_id
    ELSE IF DOMAIN table = {} THEN 1
    ELSE (CHOOSE k \in DOMAIN table : \A j \in DOMAIN table : j <= k) + 1

\* HostRepository.add_host: the insert, which the database refuses with
\* IntegrityError when the key is taken or the name, which may not be NULL,
\* is not set.
RepoAddHost(table, body) ==
    IF InsertedKey(table, body) \in DOMAIN table \/ body.name = NoHostName
    THEN [hosts |-> table, raised |-> "IntegrityError", host_id |-> NoHostId]
    ELSE [hosts |-> With(table, InsertedKey(table, body),
                         [name |-> body.name, ssh_port |-> body.ssh_port]),
          raised |-> "", host_id |-> InsertedKey(table, body)]

\* HostRepository.delete_host: the delete, and LookupError when rowcount is 0.
RepoDeleteHost(table, id) ==
    IF id \in DOMAIN table THEN [hosts |-> Without(table, id), raised |-> ""]
                           ELSE [hosts |-> table, raised |-> "LookupError"]

\* HostRepository.update_host: the update of the row under id with the fields
\* the body sets, the primary key among them, which the database refuses with
\* IntegrityError when another row has that key; LookupError when rowcount is 0.
RepoUpdateHost(table, body, id) ==
    IF id \notin DOMAIN table THEN [hosts |-> table, raised |-> "LookupError"]
    ELSE IF body.host_id \in DOMAIN table \ {id}
    THEN [hosts |-> table, raised |-> "IntegrityError"]
    ELSE [hosts |-> With(Without(table, id),
                         IF body.host_id = NoHostId THEN id ELSE body.host_id,
                         UpdatedRow(table[id], body)),
          raised |-> ""]

\* The answer of a route: LookupError becomes HTTPException(status_code=404,
\* detail='Host not found'), any other exception is the framework's 500.
Answer(method, id, raised, detail) ==
    [method |-> method, host_id |-> id,
     status_code |-> IF raised = "" THEN 200 ELSE IF raised = "LookupError" THEN 404 ELSE 500,
     detail |-> IF raised = "" THEN detail
                ELSE IF raised = "LookupError" THEN "Host not found"
                ELSE "Internal Server Error"]

\* The rest of the program does not move while the registry is used.
RegistryOnly == UNCHANGED <<pool_side, manager>>

\* POST /api/v1/hosts
ApiAddHost(body) ==
    /\ body.host_id = NoHostId => Cardinality(DOMAIN registry.hosts) < NumHostIds
    /\ InsertedKey(registry.hosts, body) \in HostIds
    /\ LET done == RepoAddHost(registry.hosts, body)
       IN registry' = [hosts |-> done.hosts,
                       response |-> Answer("POST", done.host_id, done.raised, "")]
    /\ RegistryOnly

\* GET /api/v1/hosts/{host_id}: get_host raises LookupError when the select
\* finds no row.
ApiGetHost(id) ==
    /\ registry' = [registry EXCEPT
                      !.response = Answer("GET", id,
                                          IF id \in DOMAIN registry.hosts THEN ""
                                          ELSE "LookupError", "")]
    /\ RegistryOnly

\* DELETE /api/v1/hosts/{host_id}
ApiDeleteHost(id) ==
    /\ LET done == RepoDeleteHost(registry.hosts, id)
       IN registry' = [hosts |-> done.hosts,
                       response |-> Answer("DELETE", id, done.raised, "Deleted")]
    /\ RegistryOnly

\* PUT /api/v1/hosts/{host_id}
ApiUpdateHost(body, id) ==
    /\ LET done == RepoUpdateHost(registry.hosts, body, id)
       IN registry' = [hosts |-> done.hosts,
                       response |-> Answer("PUT", id, done.raised, "Updated")]
    /\ RegistryOnly

\* Requests come one after the other, for any id and with any body.
NextHosts ==
    \/ \E body \in HostBodies : ApiAddHost(body)
    \/ \E id \in HostIds : ApiGetHost(id)
    \/ \E id \in HostIds : ApiDeleteHost(id)
    \/ \E body \in HostBodies, id \in HostIds : ApiUpdateHost(body, id)

SpecHosts == InitStarted /\ [][NextHosts]_vars

\* ============================================================ the properties

\* No method is running: every thread is free or has just got its outcome.
Quiescent == \A t \in Threads : pc[t] \in {"idle", "done"}

OpenTransports == {c \in DOMAIN transports : transports[c].open}

LeasedKeys == {leases[id] : id \in DOMAIN leases}

\* Thread t has the outcome of method op in its frame.
Finished(t, op) == pc[t] = "done" /\ frame[t].op = op

\* The three tables are as they were when the method was called.
TablesAsBefore ==
    /\ leases = pre.leases
    /\ connections = pre.connections
    /\ transports = pre.transports

\* C1: with the methods run one at a time, between two methods every lease maps
\* to a key whose transport is in the connection table and open, every open
\* transport is in the table under its key and has a lease on that key, and there
\* are as many open transports as keys referenced by leases.
C1_LeasesMatchTransports ==
    Quiescent =>
        /\ \A id \in DOMAIN leases :
              /\ HasConnection(leases[id])
              /\ connections[leases[id]] \in OpenTransports
        /\ \A c \in OpenTransports :
              /\ HasConnection(transports[c].key)
              /\ connections[transports[c].key] = c
              /\ transports[c].key \in LeasedKeys
        /\ Cardinality(OpenTransports) = Cardinality(LeasedKeys)

\* A release has just closed the transport of one key while another key is leased.
C1_Witness ==
    \E t \in Threads :
        /\ Finished(t, "release")
        /\ frame[t].destroyed # NoConn
        /\ LeasedKeys # {}

\* C2: under any interleaving of get_connection and release_connection, the
\* transport of a lease that a completed get_connection returned and that its
\* holder has not released is open and in the connection table.
C2_HeldTransportStaysOpen ==
    \A t \in Threads : \A h \in held[t] :
        /\ h[2] \in OpenTransports
        /\ HasConnection(transports[h[2]].key)
        /\ connections[transports[h[2]].key] = h[2]

\* The get_connection calls of two threads that both began while the key had no
\* transport and that both returned.
FirstTogether(t, u) ==
    /\ t # u
    /\ Finished(t, "get") /\ Finished(u, "get")
    /\ frame[t].result = "ok" /\ frame[u].result = "ok"
    /\ frame[t].fresh /\ frame[u].fresh
    /\ frame[t].key = frame[u].key

\* C3: when threads call get_connection for one key at the same time and the key
\* has no transport, one transport is established for the key, every caller gets
\* that transport, and the callers get different lease ids.
C3_OneTransportForConcurrentFirst ==
    \A t, u \in Threads :
        FirstTogether(t, u) =>
            /\ Cardinality({c \in DOMAIN transports : transports[c].key = frame[t].key}) = 1
            /\ frame[t].conn = frame[u].conn
            /\ frame[t].conn = connections[frame[t].key]
            /\ frame[t].lease_id # frame[u].lease_id
            /\ frame[t].lease_id \in DOMAIN leases
            /\ frame[u].lease_id \in DOMAIN leases

C3_Witness == \E t, u \in Threads : FirstTogether(t, u)

\* C4: get_connection for a key that has an open transport returns that transport
\* and a lease id that was not live, connects nothing, and leaves the transport
\* with the credentials it was connected with.
C4_ExistingTransportIsShared ==
    \A t \in Threads :
        (Finished(t, "get") /\ frame[t].key \in DOMAIN pre.connections) =>
            /\ frame[t].result = "ok"
            /\ frame[t].conn = pre.connections[frame[t].key]
            /\ frame[t].lease_id \notin DOMAIN pre.leases
            /\ transports = pre.transports
            /\ connections = pre.connections
            /\ leases = With(pre.leases, frame[t].lease_id, frame[t].key)

\* The second acquisition came with other credentials than the first.
C4_Witness ==
    \E t \in Threads :
        /\ Finished(t, "get")
        /\ frame[t].key \in DOMAIN pre.connections
        /\ frame[t].cred # transports[frame[t].conn].cred
        /\ pre.leases # EmptyMap

\* Another lease of pre maps to the key of lease id.
SharedBefore(id) ==
    \E other \in DOMAIN pre.leases : other # id /\ pre.leases[other] = pre.leases[id]

\* C5: release_connection of a live lease removes that lease and no other; the
\* transport of its key is closed and dropped from the table exactly when no
\* other lease maps to the key; every other transport is left as it was.
C5_ReleaseClosesWithLastLease ==
    \A t \in Threads :
        (Finished(t, "release") /\ frame[t].lease_id \in DOMAIN pre.leases) =>
            /\ frame[t].result = "ok"
            /\ leases = Without(pre.leases, frame[t].lease_id)
            /\ IF SharedBefore(frame[t].lease_id)
                 THEN /\ connections = pre.connections
                      /\ transports = pre.transports
                 ELSE /\ connections = Without(pre.connections, pre.leases[frame[t].lease_id])
                      /\ transports =
                             Closed(pre.transports,
                                    pre.connections[pre.leases[frame[t].lease_id]])

\* The last lease of one key has been released while another key has a transport.
C5_Witness ==
    \E t \in Threads :
        /\ Finished(t, "release")
        /\ frame[t].lease_id \in DOMAIN pre.leases
        /\ ~SharedBefore(frame[t].lease_id)
        /\ OpenTransports # {}

\* One of two leases of a key has been released: the transport stays.
C5_SharedCase ==
    \E t \in Threads :
        /\ Finished(t, "release")
        /\ frame[t].lease_id \in DOMAIN pre.leases
        /\ SharedBefore(frame[t].lease_id)

\* C6: on every exit path of the connection scope, a normal end or an error
\* raised inside the scope, the lease obtained on entry is no longer in the lease
\* table when Dumper.run ends.
C6_ScopeAlwaysReleases ==
    \A t \in Threads :
        (Finished(t, "run") /\ frame[t].path \in {"normal", "raised"}) =>
            frame[t].lease_id \notin DOMAIN leases

\* C7: a get_connection whose connect fails raises to the caller, leaves the
\* lease table, the connection table and the transports as they were, and leaves
\* the pool lock free.
C7_FailedConnectChangesNothing ==
    \A t \in Threads :
        (pc[t] = "done" /\ frame[t].op \in {"get", "run"} /\ frame[t].result = "ConnectFailed") =>
            /\ TablesAsBefore
            /\ ssh_lock = NoThread
            /\ frame[t].lease_id \notin DOMAIN leases
            /\ ~HasConnection(frame[t].key)

\* A connect has failed while another key was leased.
C7_Witness ==
    \E t \in Threads :
        /\ Finished(t, "get")
        /\ frame[t].result = "ConnectFailed"
        /\ pre.leases # EmptyMap

\* C8: release_connection of an id that is not in the lease table raises
\* LookupError and changes neither table.
C8_UnknownLeaseIsRefused ==
    \A t \in Threads :
        (Finished(t, "release") /\ frame[t].lease_id \notin DOMAIN pre.leases) =>
            /\ frame[t].result = "LookupError"
            /\ TablesAsBefore

\* An unknown id has been released while other ids were live.
C8_Witness ==
    \E t \in Threads :
        /\ Finished(t, "release")
        /\ frame[t].lease_id \notin DOMAIN pre.leases
        /\ pre.leases # EmptyMap

\* C9: destroy_all_connections closes every transport and empties both tables;
\* a release_connection right after it fails with LookupError for every id; a
\* second destroy_all_connections right after it changes nothing and raises
\* nothing.
C9_DestroyAllClearsEverything ==
    \A t \in Threads :
        /\ Finished(t, "destroy") =>
              /\ frame[t].result = "ok"
              /\ connections = EmptyMap
              /\ leases = EmptyMap
              /\ OpenTransports = {}
              /\ \A c \in DOMAIN transports :
                    /\ c \in DOMAIN pre.transports
                    /\ transports[c].key = pre.transports[c].key
                    /\ transports[c].cred = pre.transports[c].cred
        /\ (Finished(t, "release") /\ pre.last = "destroy") =>
              /\ frame[t].result = "LookupError"
              /\ TablesAsBefore
        /\ (Finished(t, "destroy") /\ pre.last = "destroy") => TablesAsBefore

\* destroy_all_connections has run on two transports with a lease each.
C9_Witness ==
    \E t \in Threads :
        /\ Finished(t, "destroy")
        /\ Cardinality(DOMAIN pre.connections) = 2
        /\ Cardinality(DOMAIN pre.leases) = 2

\* A release right after destroy_all_connections.
C9_ReleaseAfter ==
    \E t \in Threads :
        Finished(t, "release") /\ pre.last = "destroy" /\ transports # <<>>

\* destroy_all_connections right after destroy_all_connections.
C9_DestroyTwice ==
    \E t \in Threads :
        Finished(t, "destroy") /\ pre.last = "destroy" /\ transports # <<>>

\* What one SingletonMeta.__call__ must keep once the instance exists.
KeepsInstance ==
    /\ instance' = instance
    /\ inits' = inits
    /\ name' = name
    /\ leases' = leases
    /\ connections' = connections
    /\ transports' = transports

\* C10: every construction of SSHConnectionManager, from whatever thread, yields
\* the one instance; __init__ runs once, so the name of the first construction
\* stays, and a later construction leaves the leases and connections as they are.
C10_OneInstance ==
    /\ [](/\ inits <= 1
          /\ instance = inits
          /\ name = first_name
          /\ \A t \in Threads : Finished(t, "construct") => frame[t].ret = 1)
    /\ [][\A t \in Threads : (instance # 0 /\ CtorStep(t)) => KeepsInstance]_vars

\* A second construction under another name has returned while a lease is live.
C10_Witness ==
    \E t \in Threads :
        /\ Finished(t, "construct")
        /\ ~frame[t].made
        /\ frame[t].name # name
        /\ leases # EmptyMap

\* Two threads were constructing at the same time.
C10_ConcurrentCase ==
    \E t, u \in Threads :
        /\ Finished(t, "construct") /\ frame[t].made
        /\ Finished(u, "construct") /\ ~frame[u].made

\* The ids of the task table and of the lease table, as the strings they stand for.
LiveIdTexts ==
    {IdText(tasks[i].task_id) : i \in DOMAIN tasks} \cup {IdText(id) : id \in DOMAIN leases}

\* A string of length 8 over [A-Z0-9].
WellFormedId(text) ==
    /\ Len(text) = 8
    /\ \A i \in 1..Len(text) :
         text[i] \in {"A", "B", "C", "D", "E", "F", "G", "H", "I", "J", "K", "L", "M", "N", "O",
                      "P", "Q", "R", "S", "T", "U", "V", "W", "X", "Y", "Z",
                      "0", "1", "2", "3", "4", "5", "6", "7", "8", "9"}

\* The start handler has minted sup.task_id and registered its worker.
TaskMinted == sup.pc = "snapshot"

\* Thread t has minted frame[t].lease_id and has not stored it yet.
LeaseMinted(t) == pc[t] \in {"g_connect", "g_lease"}

\* C11: no two entries of the task table share a task id and no two threads
\* hold the same lease id; an id that has just been minted is none of the ids
\* that were live when it was minted (the task id is not in the table the
\* handler found, the lease id is not in the lease table while the minting thread
\* holds the lock); every live id is a string of length 8 over [A-Z0-9].
C11_MintedIdsAreFreshAndWellFormed ==
    /\ \A i, j \in DOMAIN tasks : i # j => tasks[i].task_id # tasks[j].task_id
    /\ \A t, u \in Threads : t # u => {h[1] : h \in held[t]} \cap {h[1] : h \in held[u]} = {}
    /\ TaskMinted =>
          /\ \A i \in DOMAIN sup.before : sup.before[i].task_id # sup.task_id
          /\ Len(tasks) = Len(sup.before) + 1
    /\ \A t \in Threads : LeaseMinted(t) => frame[t].lease_id \notin DOMAIN leases
    /\ \A text \in LiveIdTexts : WellFormedId(text)

\* A task id is minted while another task is in the table, and a worker mints
\* a lease id while another lease is live.
C11_Witness ==
    /\ TaskMinted
    /\ sup.before # <<>>
    /\ \E t \in Threads : LeaseMinted(t) /\ DOMAIN leases # {}

\* The front method of thread c has taken a result from the result queue.
Received(c) == call[c].pc = "done" /\ call[c].result.kind # ""

\* C12: every front call that returns a payload or raises the error of a
\* result again has taken the result the supervisor produced for the command
\* that this call put on the command queue.
C12_ResultAnswersOwnCommand ==
    \A c \in Callers : Received(c) => call[c].result.tag = call[c].tag

\* The foreground threads whose command is put and whose result is not taken.
InFlight == {c \in Callers : call[c].pc = "wait"}

\* C13: the front has at most one RPC in flight: while one foreground thread
\* waits for its result, no other thread's command has been put on the
\* command queue.
C13_OneRpcInFlight == Cardinality(InFlight) <= 1

\* The handler of the command in hand has returned; its value is not put yet.
Handled(cmd_name) == sup.pc = "reply" /\ sup.cmd.name = cmd_name

\* _stop_task has returned a Task: it found the id in the table.
StopSucceeded == Handled("stop_task") /\ sup.returned_value.kind = "Task"

\* Task id is in the table.
InTable(table, id) == \E i \in DOMAIN table : table[i].task_id = id

\* This step puts an id in the table that was not there.
AddsTask == \E id \in TaskIds : ~InTable(tasks, id) /\ InTable(tasks', id)

\* C14: when stop_task(task_id) has succeeded, the snapshot it returns says
\* is_alive = false, the worker's thread has ended and the id is not in the
\* task table; an id enters the table only by a start handler; and a
\* get_task_info or stop_task of an id that is not in the table is answered
\* with the LookupError of an unknown task. So the id stays unknown to every
\* get_task_info and stop_task that follows until a start_* is handled.
C14_StoppedTaskIsGone ==
    /\ [](StopSucceeded =>
            /\ sup.returned_value.task.is_alive = FALSE
            /\ sup.returned_value.task.task_id = sup.cmd.task_id
            /\ ~IsAlive(sup.dumper)
            /\ ~InTable(tasks, sup.cmd.task_id))
    /\ [][AddsTask => sup.pc = "dispatch" /\ sup.cmd.name \in StartNames]_vars
    /\ [](\A n \in TaskNames :
            Handled(n) /\ ~InTable(sup.before, sup.cmd.task_id)
                => /\ sup.returned_value.kind = "error"
                   /\ sup.returned_value.error = "LookupError")

\* stop_task has succeeded on a worker that was running when it was told to stop.
C14_Witness == StopSucceeded /\ need_stop[sup.dumper]

\* get_task_info is answered for an id that was started and stopped before:
\* the id is not in the table and its worker's slot is free again.
C14_LookupAfterStop ==
    /\ Handled("get_task_info")
    /\ sup.returned_value.error = "LookupError"
    /\ tasks = <<>>
    /\ transports # <<>>

\* The handler of get_task_info or stop_task has returned for an id that was
\* not in the table it found.
UnknownHandled(n) == Handled(n) /\ ~InTable(sup.before, sup.cmd.task_id)

\* The supervisor is about to run the handler of get_task_info or stop_task
\* for an id that is not in the table.
UnknownInHand ==
    /\ sup.pc = "dispatch"
    /\ sup.cmd.name \in TaskNames
    /\ ~InTable(tasks, sup.cmd.task_id)

\* C15: get_task_info and stop_task of a task id that is not in the task table
\* are answered with a LookupError whose message is
\* 'Task with id="<id>" not found in task list.', which the front raises; the
\* handler's step leaves the task table, the stop flags, the worker threads and
\* the pool as they are.
C15_UnknownTaskIsRefused ==
    /\ [](\A n \in TaskNames :
            UnknownHandled(n)
                => /\ sup.returned_value.kind = "error"
                   /\ sup.returned_value.error = "LookupError"
                   /\ sup.returned_value.message =
                          <<"Task with id=\"", sup.cmd.task_id, "\" not found in task list.">>
                   /\ tasks = sup.before)
    /\ [](\A c \in Callers :
            Received(c) /\ call[c].result.kind = "error"
                => call[c].outcome = "raised" /\ call[c].error = call[c].result.error)
    /\ [][UnknownInHand /\ sup'.pc # "dispatch"
             => UNCHANGED <<tasks, need_stop, pc, frame, held, connections, leases, transports>>]_vars

\* stop_task is refused for an unknown id while another task is in the table.
C15_Witness ==
    /\ UnknownHandled("stop_task")
    /\ sup.returned_value.error = "LookupError"
    /\ tasks # <<>>

\* The front has raised the LookupError of get_task_info.
C15_Raised ==
    \E c \in Callers :
        /\ Received(c)
        /\ call[c].name = "get_task_info"
        /\ call[c].outcome = "raised"
        /\ call[c].error = "LookupError"

\* The table without the entry of task id, the others in their order.
Removed(table, id) == SelectSeq(table, LAMBDA e : e.task_id # id)

\* This step is a start handler that puts one new entry at the end of the table.
StartAppends ==
    /\ sup.pc = "dispatch"
    /\ sup.cmd.name \in StartNames
    /\ Len(tasks') = Len(tasks) + 1
    /\ SubSeq(tasks', 1, Len(tasks)) = tasks
    /\ ~InTable(tasks, tasks'[Len(tasks')].task_id)

\* This step is _stop_task taking the entry of its id, and no other, out of the table.
StopRemoves ==
    /\ sup.pc = "dispatch"
    /\ sup.cmd.name = "stop_task"
    /\ InTable(tasks, sup.cmd.task_id)
    /\ tasks' = Removed(tasks, sup.cmd.task_id)

C16_AfterStop ==
    /\ Handled("get_all_tasks")
    /\ Len(sup.returned_value.list) = 1
    /\ sup.returned_value.list[1].name = DumperName(TaskType.PCAP, 2)
    /\ \E w \in Threads : pc[w] = "idle"

\* str.endswith, on the pieces of a name.
EndsWith(text, suffix) ==
    /\ Len(text) >= Len(suffix)
    /\ SubSeq(text, Len(text) - Len(suffix) + 1, Len(text)) = suffix

\* The start handler of cmd_name has returned a Task with this name suffix and
\* this task type, for a new entry at the end of the table it found.
StartedAs(cmd_name, prefix, type) ==
    Handled(cmd_name) =>
        IF sup.returned_value.kind = "error"
        THEN sup.returned_value = StartFailed /\ tasks = sup.before
        ELSE
        /\ sup.returned_value.kind = "Task"
        /\ LET task == sup.returned_value.task
           IN /\ ~InTable(sup.before, task.task_id)
              /\ Len(tasks) = Len(sup.before) + 1
              /\ SubSeq(tasks, 1, Len(sup.before)) = sup.before
              /\ tasks[Len(tasks)].task_id = task.task_id
              /\ EndsWith(task.name, <<prefix, task.task_id>>)
              /\ task.task_type = type

\* C17: a start handler that raises leaves the task table as it was, and a
\* start handler that returns has added one entry to the task table, at its
\* end and under an id that was not in the table, and has left every
\* other entry as it was; the Task it returns has that id, a name that ends
\* with pcap_<id> and the type pcap_dump for start_pcap_dump, with log_<id> and
\* log_dump for start_log_dump.
C17_StartRegistersOneTask ==
    /\ StartedAs("start_pcap_dump", "pcap_", "pcap_dump")
    /\ StartedAs("start_log_dump", "log_", "log_dump")

\* start_pcap_dump has returned while another task is in the table.
C17_Witness ==
    Handled("start_pcap_dump") /\ sup.returned_value.kind = "Task" /\ sup.before # <<>>

\* start_log_dump has returned.
C17_LogCase == Handled("start_log_dump") /\ sup.returned_value.task.task_type = "log_dump"

\* A start handler has returned a Task.
StartHandled == sup.returned_value.kind = "Task" /\ \E n \in StartNames : Handled(n)

\* C18 as stated: the Task that a start handler returns says is_alive = true,
\* however the handler and the thread of the new worker interleave.
C18_StartReportsAlive == StartHandled => sup.returned_value.task.is_alive = TRUE

\* This step is the return statement of a start handler.
StartReturns == sup.pc = "snapshot" /\ sup'.pc = "reply"

\* C18, amended: the Task that a start handler returns says whether the thread
\* of the new worker is running at the moment the handler builds the Task,
\* after start() and the registration: is_alive is true for a worker that has
\* not ended, and false when the worker's run has already ended by then.
C18_StartReportsLiveness ==
    /\ [][StartReturns => sup'.returned_value.task.is_alive = IsAlive(sup.dumper)]_vars
    /\ [](StartHandled /\ ~sup.returned_value.task.is_alive => pc[sup.dumper] = "done")

\* A start handler has returned is_alive = false: the connect of the new
\* worker failed before the handler built the Task.
C18_Witness ==
    /\ StartHandled
    /\ ~sup.returned_value.task.is_alive
    /\ frame[sup.dumper].result = "ConnectFailed"

\* A start handler has returned is_alive = true for a worker that is connecting.
C18_AliveCase ==
    /\ StartHandled
    /\ sup.returned_value.task.is_alive
    /\ pc[sup.dumper] = "g_connect"

\* The call of c has failed with TimeoutError.
TimedOut(c) ==
    /\ call[c].pc = "done"
    /\ call[c].outcome = "raised"
    /\ call[c].error = "TimeoutError"

\* The command with this tag waits on the command queue.
Queued(tag) == \E i \in 1..Len(cmd_queue) : cmd_queue[i].tag = tag

\* The supervisor has taken a command and not yet answered it.
Handling == sup.pc \notin {"down", "poll", "get", "stopping", "stop_join", "exited"}

InHand(tag) == Handling /\ sup.cmd.tag = tag

\* The result of the command with this tag waits on the result queue.
Answered(tag) == \E i \in 1..Len(res_queue) : res_queue[i].tag = tag

\* This step is the timeout of the call of c.
TimesOut(c) == call[c].pc = "wait" /\ TimedOut(c)'

\* This step takes a command from the command queue.
Taken == Len(cmd_queue') < Len(cmd_queue)

\* This step ends the supervisor's work on the command it has taken.
Completes == Handling /\ ~Handling'

C19_SeenLater ==
    /\ Handled("get_all_tasks")
    /\ Len(sup.returned_value.list) = 1
    /\ sup.cmd.tag # call[MainThread].tag
    /\ TimedOut(MainThread)

\* This step is the call of an RPC method by c.
Invokes(c) == call[c].pc = "idle" /\ call'[c].pc # "idle" /\ call'[c].name \in RpcNames

\* The call of c has failed with RuntimeError('TaskManager not started!').
Refused(c) ==
    /\ call[c].pc = "done"
    /\ call[c].name \in RpcNames
    /\ call[c].outcome = "raised"
    /\ call[c].error = "RuntimeError"

\* C20: an RPC method of the front that is called when the front is not
\* started, before the first start() or after stop(), fails with RuntimeError
\* and puts nothing on the command queue; on a started front the call puts
\* its command at the end of the queue and waits.
C20_NotStartedIsRefused ==
    /\ [][\A c \in Callers :
            Invokes(c) /\ process = "none" => Refused(c)' /\ UNCHANGED cmd_queue]_vars
    /\ [][\A c \in Callers :
            Invokes(c) /\ process # "none" =>
                /\ call'[c].pc = "wait"
                /\ Len(cmd_queue') = Len(cmd_queue) + 1
                /\ cmd_queue'[Len(cmd_queue')].tag = call'[c].tag]_vars

\* A call before the first start() has been refused.
C20_Witness == Refused(MainThread) /\ sup.pc = "down" /\ cmd_queue = <<>>

\* A call after stop() has been refused: the process has exited.
C20_AfterStop == Refused(MainThread) /\ sup.pc = "exited"

\* Each RPC method has been refused.
C20_StartPcap == Refused(MainThread) /\ call[MainThread].name = "start_pcap_dump"

\* a is the beginning of b.
IsPrefix(a, b) == Len(a) <= Len(b) /\ SubSeq(b, 1, Len(a)) = a

\* C25: the content of a worker's output file is a prefix of the bytes received
\* on stdout, and with the bytes still in the channel's buffer it is all of
\* them; a step only appends to the file (but for the open that creates it);
\* no byte of stderr is in the file.
C25_FileIsPrefixOfStdout ==
    /\ [](\A t \in Threads :
            /\ IsPrefix(output_file[t], channel[t].received)
            /\ Observed(output_file[t] \o channel[t].in_buffer) = channel[t].received
            /\ \A i \in DOMAIN output_file[t] : output_file[t][i] \notin StderrBytes)
    /\ [][\A t \in Threads :
            pc[t] # "w_open" => IsPrefix(output_file[t], output_file'[t])]_vars

\* The worker has written two different bytes, has logged stderr text, and
\* more stdout bytes wait in the buffer.
C25_Witness ==
    /\ Len(output_file[FirstWorker]) = 2
    /\ output_file[FirstWorker][1] # output_file[FirstWorker][2]
    /\ frame[FirstWorker].logged # <<>>
    /\ channel[FirstWorker].in_buffer # <<>>

\* C26: a worker that is alive with its stop flag set, in whatever phase and
\* whatever arrives on its channel, leaves its loop and ends, so that the join
\* of stop() returns.
C26_StopEndsWorker ==
    \A t \in Threads : (need_stop[t] /\ IsAlive(t)) ~> ~IsAlive(t)

\* C27: a poll that reports hangup for the worker's channel, with or without
\* read-ready in the same event, sets the worker's stop flag.
C27_HangupSetsFlag ==
    [][\A t \in Threads : \A event \in Events :
          ("EPOLLHUP" \in event /\ RunPoll(t, event)) => need_stop'[t]]_vars

\* C28: reading a chunk from stderr, whatever its bytes, leaves the worker in
\* its loop with the stop flag as it was.
C28_StderrKeepsRunning ==
    [][\A t \in Threads :
          (channel[t].in_stderr_buffer # <<>> /\ RunReadStderr(t))
             => (pc'[t] \in LoopPcs /\ need_stop'[t] = need_stop[t])]_vars

\* C29: a worker whose remote command has already ended right after
\* exec_command has failed with DumperError and the exit code: it is not
\* alive, it never came to its loop, so that nothing was received from the
\* channel, and its output file is empty.
C29_EarlyTermination ==
    \A t \in Threads :
        frame[t].result = "DumperError"
           => /\ ~IsAlive(t)
              /\ frame[t].path = "raised"
              /\ frame[t].exitcode \in ExitCodes
              /\ channel[t] = NoChannel
              /\ output_file[t] = <<>>

C29_Witness ==
    /\ frame[FirstWorker].result = "DumperError"
    /\ frame[FirstWorker].exitcode = 127
    /\ pc[FirstWorker] = "done"

\* The supervisor has left its dispatch loop.
ShutdownPcs == {"stopping", "stop_join", "exited"}

\* C22: once the supervisor has left its dispatch loop, with the stop event
\* set, it takes no command and puts no result; it calls stop on the workers
\* of the task table one after the other in the order of the table, each
\* worker before the loop has ended when the loop moves on; it exits only
\* after the last entry, and then no worker of the table is alive.
C22_ShutdownOrder ==
    /\ [](sup.pc \in ShutdownPcs =>
            /\ stop_event
            /\ \A i \in DOMAIN tasks : i < sup.next => ~IsAlive(tasks[i].dumper)
            /\ sup.pc = "stop_join" =>
                  /\ sup.next \in DOMAIN tasks
                  /\ sup.dumper = tasks[sup.next].dumper
                  /\ need_stop[sup.dumper] \/ ~IsAlive(sup.dumper)
            /\ sup.pc = "exited" => \A i \in DOMAIN tasks : ~IsAlive(tasks[i].dumper))
    /\ [][sup.pc \in ShutdownPcs =>
            /\ sup'.pc \in ShutdownPcs
            /\ tasks' = tasks
            /\ Len(cmd_queue') >= Len(cmd_queue)
            /\ Len(res_queue') <= Len(res_queue)
            /\ sup'.next \in {sup.next, sup.next + 1}
            /\ (sup'.pc = "exited" /\ sup.pc # "exited") => sup.next > Len(tasks)
            /\ (sup'.pc = "stop_join" /\ sup.pc # "stop_join") =>
                  /\ sup'.next = sup.next
                  /\ \A w \in Threads : need_stop'[w] # need_stop[w]
                                           => w = tasks[sup.next].dumper]_vars

\* Two workers whose runs have not failed have been stopped, and the supervisor
\* has exited.
C22_Witness ==
    /\ sup.pc = "exited"
    /\ Len(tasks) = 2
    /\ \A i \in DOMAIN tasks : need_stop[tasks[i].dumper] /\ frame[tasks[i].dumper].path # "raised"

\* C23: the supervisor puts one result for each command it takes, the value
\* its handler returned or the error its handler raised: a command is taken
\* only into the supervisor's hand, with no other in hand; a result is put
\* only for the command in hand, it is the handler's value under the command's
\* tag, and it ends the work on the command; the work on a command ends in no
\* other way, whether the handler returned or raised, and the supervisor is
\* then back at the head of its loop.
C23_OneResultPerCommand ==
    /\ [][Taken => ~Handling /\ Handling' /\ sup'.cmd = Head(cmd_queue)
                      /\ res_queue' = res_queue]_vars
    /\ [][Len(res_queue') > Len(res_queue) =>
              /\ Handling
              /\ sup.pc = "reply"
              /\ res_queue' = Append(res_queue, [sup.returned_value EXCEPT !.tag = sup.cmd.tag])
              /\ ~Handling']_vars
    /\ [][Completes => /\ Len(res_queue') = Len(res_queue) + 1
                       /\ sup'.pc = "poll"]_vars
    /\ [][(Handling /\ Handling') => (sup'.cmd = sup.cmd /\ Len(res_queue') <= Len(res_queue))]_vars
    /\ [](sup.pc = "reply" => sup.returned_value.kind \in {"Task", "list", "error"})

\* The error that a start handler raised has been put on the result queue,
\* and the supervisor has the following command in hand.
C23_Witness ==
    /\ Handling
    /\ \E i \in DOMAIN res_queue :
          /\ res_queue[i] = [StartFailed EXCEPT !.tag = res_queue[i].tag]
          /\ res_queue[i].tag # sup.cmd.tag

\* The run of worker w has ended with an error: a failed connect, a failed
\* open of the output file, an early exit of the command, a transport error.
Failed(w) ==
    /\ pc[w] = "done"
    /\ frame[w].op = "run"
    /\ frame[w].path \in {"raised", "not_entered"}

\* This step is the failure of worker w.
Fails(w) ==
    /\ ~Failed(w)
    /\ pc'[w] = "done"
    /\ frame'[w].op = "run"
    /\ frame'[w].path \in {"raised", "not_entered"}

C24_NoRecordLeftBehind ==
    log_thread.pc \in {"none", "exited"} => log_queue = <<>>

\* C21: a front stop() that has set the stop event and waits for the process
\* returns in the end.
C21_StopReturns ==
    \A c \in Callers :
        (call[c].name = "stop" /\ call[c].pc = "join") ~> (call[c].pc = "done")

\* C33: a release_connection that found its lease in the table, whatever the
\* other threads do to the pool meanwhile, returns without raising.
C33_ReleaseCompletes ==
    \A t \in Threads :
        (pc[t] = "done" /\ frame[t].op = "release" /\ frame[t].released # NoKey)
           => frame[t].result = "ok"

\* C31: a worker that has left its loop with the stop flag set and has
\* terminated has released its lease: at the step that ends its run the lease
\* id is not in the lease table, unless another thread has drawn the
\* same id since, and when no lease is left on its key the transport it used
\* is closed.
C31_ExitReleasesLease ==
    [][\A t \in Threads :
          (pc[t] # "done" /\ pc'[t] = "done" /\ frame'[t].op = "run" /\ frame'[t].path = "normal")
             => /\ frame[t].lease_id \in DOMAIN leases'
                     => \E u \in Threads \ {t} : /\ pc'[u] # "idle"
                                                   /\ frame'[u].lease_id = frame[t].lease_id
                /\ (\A id \in DOMAIN leases' : leases'[id] # frame[t].key)
                      => ~transports'[frame[t].conn].open]_vars

\* The worker's lease is in the lease table for its key, and the transport of
\* that key is the one it was given and is open.
HoldsLease(t) ==
    /\ frame[t].lease_id \in DOMAIN leases
    /\ leases[frame[t].lease_id] = frame[t].key
    /\ frame[t].key \in DOMAIN connections
    /\ connections[frame[t].key] = frame[t].conn
    /\ transports[frame[t].conn].open

\* C35: a worker comes to its output file only from a granted lease, to
\* exec_command only from an opened file, and to its loop only from
\* exec_command; the step in which exec_command succeeds is taken with the
\* lease live and the file open; and a worker that ends while acquiring or opening
\* has not executed anything: its channel is untouched and no file is open.
C35_StartupOrder ==
    [][\A t \in Threads :
          /\ (pc[t] # "w_open" /\ pc'[t] = "w_open") => pc[t] = "g_lease"
          /\ (pc[t] # "w_body" /\ pc'[t] = "w_body") => pc[t] = "w_open"
          /\ (pc[t] \notin LoopPcs /\ pc'[t] \in LoopPcs) => pc[t] = "w_body"
          /\ (pc[t] = "w_body" /\ pc'[t] # "w_body" /\ frame'[t].result # "SSHException")
                => (HoldsLease(t) /\ frame[t].opened)
          /\ (pc[t] \in AcquirePcs \cup {"w_open"} /\ pc'[t] = "done")
                => (channel'[t] = channel[t] /\ ~frame'[t].opened)]_vars

C35_Witness ==
    /\ pc[FirstWorker] = "w_poll"
    /\ HoldsLease(FirstWorker)
    /\ frame[FirstWorker].opened

\* The place of a worker in its life: not started or given up (0), starting
\* (1), running its loop (2), stopping (3), terminated (4).
Phase(p) ==
    IF p \in AcquirePcs \cup {"w_open", "w_body"} THEN 1
    ELSE IF p \in LoopPcs THEN 2
    ELSE IF p \in {"r_pop", "r_scan", "r_next", "r_destroy"} THEN 3
    ELSE IF p = "done" THEN 4
    ELSE 0

\* C36: as long as a worker object is there it only moves forward in its
\* life, its stop flag once set stays set, and once terminated it stays
\* terminated; and a thread is started only as a new worker, with its flag
\* clear, at the head of run, and not as one of the workers of the task table.
C36_MonotoneLifecycle ==
    [][\A t \in Threads :
          /\ (pc[t] # "idle" /\ pc'[t] # "idle")
                => /\ Phase(pc'[t]) >= Phase(pc[t])
                   /\ need_stop[t] => need_stop'[t]
                   /\ ~IsAlive(t) => ~IsAlive(t)'
          /\ (pc[t] = "idle" /\ pc'[t] # "idle")
                => /\ pc'[t] = "c_lock"
                   /\ ~need_stop'[t]
                   /\ \A i \in 1..Len(tasks) : tasks[i].dumper # t]_vars

\* A worker that was stopped in its loop has terminated, its flag still set.
C36_Witness ==
    \E i \in 1..Len(tasks) :
        /\ pc[tasks[i].dumper] = "done"
        /\ frame[tasks[i].dumper].path = "normal"
        /\ need_stop[tasks[i].dumper]

\* C38: while the stop event is set the supervisor does not come to the get
\* of its loop again, so that it takes at most the one command of the get it
\* was in, or finishes the one it had in hand; and once it has left the loop
\* it takes nothing from the command queue and puts nothing on the result
\* queue.
C38_AtMostOneMoreCommand ==
    [][/\ (stop_event /\ stop_event' /\ sup.pc # "get") => sup'.pc # "get"
       /\ (sup.pc \in ShutdownPcs /\ stop_event')
             => /\ sup'.pc \in ShutdownPcs
                /\ IsPrefix(cmd_queue, cmd_queue')
                /\ Len(res_queue') <= Len(res_queue)]_vars

\* The supervisor has exited and a command is left on the command queue.
C38_Witness ==
    /\ sup.pc = "exited"
    /\ stop_event
    /\ cmd_queue # <<>>

\* C40: a worker that was not told to stop and sets its flag at the poll,
\* which is the hangup branch, has written to its file every byte received on
\* stdout, and from there to its end neither the file nor the stream changes.
C40_CompleteAtHangup ==
    [][\A t \in Threads :
          /\ (pc[t] = "w_poll" /\ ~need_stop[t] /\ need_stop'[t] /\ pc'[t] # "w_poll")
                => /\ pc'[t] = "r_pop"
                   /\ output_file'[t] = channel'[t].received
          /\ (pc[t] \in {"r_pop", "r_scan", "r_next", "r_destroy"})
                => /\ output_file'[t] = output_file[t]
                   /\ channel'[t].received = channel[t].received]_vars

\* The worker has ended by hangup, without stop(), with two bytes in its file.
C40_Witness ==
    /\ pc[FirstWorker] = "done"
    /\ frame[FirstWorker].path = "normal"
    /\ Len(output_file[FirstWorker]) = 2
    /\ output_file[FirstWorker] = channel[FirstWorker].received
    /\ channel[FirstWorker].in_stderr_buffer = <<>>

\* C34: a command whose name has no handler is answered with the error
\* 'Unknown command: "<name>"', and the task table is as the supervisor found
\* it.
C34_UnknownCommand ==
    (sup.pc = "reply" /\ sup.cmd.name \notin HandlerNames)
       => /\ sup.returned_value = UnknownCommand(sup.cmd.name)
          /\ tasks = sup.before

\* C32: a GET, PUT or DELETE for an id that is not in the table is answered
\* with 404 and 'Host not found' and leaves the table as it is; a DELETE for
\* an id that is in the table removes that row and no other; a PUT for an id
\* that is in the table is answered with 200, gives that row the fields of the
\* body and leaves every other row as it is; and a GET answers 404 for every
\* id that is not in the table, a deleted one among them.
C32_HostsApi ==
    [][\A id \in HostIds : \A body \in HostBodies :
          LET table == registry.hosts
              missing == registry'.response.status_code = 404
                           /\ registry'.response.detail = "Host not found"
                           /\ registry'.hosts = table
          IN /\ (id \notin DOMAIN table
                   /\ (ApiGetHost(id) \/ ApiDeleteHost(id) \/ ApiUpdateHost(body, id)))
                   => missing
             /\ (id \in DOMAIN table /\ ApiDeleteHost(id))
                   => /\ registry'.response.status_code = 200
                      /\ registry'.hosts = Without(table, id)
             /\ (id \in DOMAIN table /\ ApiUpdateHost(body, id))
                   => /\ registry'.response.status_code = 200
                      /\ \A other \in DOMAIN table \ {id} :
                            /\ other \in DOMAIN registry'.hosts
                            /\ registry'.hosts[other] = table[other]
                      /\ \E k \in DOMAIN registry'.hosts \ (DOMAIN table \ {id}) :
                            /\ registry'.hosts[k].name = UpdatedRow(table[id], body).name
                            /\ registry'.hosts[k].ssh_port = body.ssh_port]_vars

\* The subordinate process is alive.
ProcessAlive == sup.pc \notin {"down", "exited"}

\* The log thread is alive.
LogThreadAlive == log_thread.pc \notin {"none", "exited"}

\* C39: the front knows a process whenever one is alive; a start() on a
\* started front changes nothing but the caller; and a process or a log thread
\* comes to life only in a start() that finds no process and no log thread
\* alive, which after the first start is the case only when a stop() has
\* joined both.
C39_OneProcessOneLogThread ==
    /\ [](ProcessAlive => process = "started")
    /\ [][(process # "none" /\ FrontStart(MainThread))
             => UNCHANGED <<process, sup, stop_event, tasks, log_thread, inits, instance>>]_vars
    /\ [][(inits' # inits \/ (~ProcessAlive /\ ProcessAlive') \/ (~LogThreadAlive /\ LogThreadAlive'))
             => /\ FrontStart(MainThread)
                /\ process = "none"
                /\ ~ProcessAlive
                /\ ~LogThreadAlive
                /\ inits > 0 => (sup.pc = "exited" /\ log_thread = NoLogThread)]_vars

\* The front has been started, stopped and started again, and start() is
\* called on it once more.
C39_Witness ==
    /\ inits = 2
    /\ process = "started"
    /\ ProcessAlive
    /\ call[MainThread].name = "start"
    /\ call[MainThread].pc = "done"
    /\ sup.pc # "poll"

\* C37: no two live workers have the same output file open.
C37_OwnOutputFile ==
    \A t, u \in Threads :
        (t # u /\ IsAlive(t) /\ IsAlive(u) /\ frame[t].opened /\ frame[u].opened)
           => frame[t].output_file # frame[u].output_file

====
